---- MODULE Spec2Model ----
(***************************************************************************)
(* Registration lifecycle of the LwM2M client (01-Registration).           *)
(*                                                                         *)
(* Two programs share the lifecycle code:                                  *)
(*   main.py   : REGISTER, then the SEND loop task and the UPDATE loop     *)
(*   client.py : REGISTER, then DEREGISTER                                 *)
(* Every action is the code that runs between two awaits of a coroutine.   *)
(* The transport (aiocoap) is the environment: it answers a request with a *)
(* response code, raises, or stays silent.                                 *)
(***************************************************************************)
EXTENDS Integers, Sequences, FiniteSets, TLC

VARIABLES
    prog,           \* which entry point runs: "main", "client", or a direct call
    pc,             \* position of the main coroutine
    params,         \* RegistrationParameters built by register()
    location,       \* device_location_parts / location held by the coroutine
    interval,       \* send_update_loop's interval, 0 before the loop is entered
    regResponse,    \* the REGISTER response, NoResponse before it arrives
    sendTask,       \* position of the send_loop task
    inflight,       \* indices of sent requests whose response is awaited
    sent,           \* every request handed to coap_client.request, in order
    error,          \* exception that ended the coroutine, "none" otherwise
    consecFail,     \* history: consecutive UPDATE responses that were not 2.xx
    after,          \* history: lifecycle state seen right after an exchange ended
    transportFailed, \* history: a register/update exchange raised
    silent,         \* the server has stopped answering
    call,           \* the handler or codec function invoked last, with its arguments
    result,         \* what that invocation returned or raised
    current_temp,   \* lwm2m_client._current_temp, in hundredths of a degree
    payload         \* the records of the SendPayload object being filled

vars == <<prog, pc, params, location, interval, regResponse, sendTask,
          inflight, sent, error, consecFail, after, transportFailed, silent,
          call, result, current_temp, payload>>

lifecycleVars == <<prog, pc, params, location, interval, regResponse, sendTask,
                   inflight, sent, error, consecFail, after, transportFailed,
                   silent>>

callVars == <<call, result, current_temp, payload>>

(***************************************************************************)
(* Bounds                                                                  *)
(***************************************************************************)
MaxUpdates == 4
MaxSends == 2
MaxLifetime == 24
RetryBudget == 2

(***************************************************************************)
(* Program constants                                                       *)
(***************************************************************************)
server_url == "coap://eu.iot.avsystem.cloud:5683"
endpoint_name == "Malaria"
DefaultLifetime == 60
DefaultVersion == "1.2"
DefaultBinding == "U"
MinimumInterval == 10
APPLICATION_LINK_FORMAT == 40
NoFormat == -1

NoResponse == [code |-> 0, location |-> <<>>]

NoCall == [fn |-> "none"]
NoResult == [error |-> "none"]
\* Python's None
None == -1

\* Response codes the server may answer with (2.01, 2.02, 2.04, 4.04, 5.00).
Codes == {201, 202, 204, 404, 500}
\* Location-Path options a REGISTER response may carry.
LocationChoices == {<<>>, <<"rd">>, <<"rd", "x7">>}
\* Exceptions the transport may raise out of `await ... .response`.
Exceptions == {"TimeoutError", "NetworkError"}
\* lifetime_seconds values for direct calls of send_update_loop.
LifetimeChoices == (0..MaxLifetime) \cup {DefaultLifetime}

LifecycleOps == {"REGISTER", "UPDATE", "DEREGISTER"}

(***************************************************************************)
(* Pure helpers                                                            *)
(***************************************************************************)
IsSuccessful(code) == code \div 100 = 2

Max(a, b) == IF a >= b THEN a ELSE b

RECURSIVE Join(_, _)
Join(sep, parts) ==
    IF parts = <<>> THEN ""
    ELSE IF Len(parts) = 1 THEN parts[1]
    ELSE parts[1] \o sep \o Join(sep, Tail(parts))

RegistrationParameters(device_name) ==
    [device_name |-> device_name,
     lifetime_seconds |-> DefaultLifetime,
     lwm2m_version |-> DefaultVersion,
     binding |-> DefaultBinding,
     enable_queue_binding |-> TRUE]

\* register_path that appends "&Q" only when enable_queue_binding is set.
register_path_OptionalQueueFlag(p) ==
    "/rd?ep=" \o p.device_name
        \o "&lt=" \o ToString(p.lifetime_seconds)
        \o "&lwm2m=" \o p.lwm2m_version
        \o "&b=" \o p.binding
        \o (IF p.enable_queue_binding THEN "&Q" ELSE "")

\* models.py RegistrationParameters.register_path
register_path(p) ==
    "/rd?ep=" \o p.device_name
        \o "&lt=" \o ToString(p.lifetime_seconds)
        \o "&lwm2m=" \o p.lwm2m_version
        \o "&b=" \o p.binding \o "&Q"

\* client.py RegistrationParameters.to_register_path
to_register_path(p) ==
    "/rd?ep=" \o p.device_name
        \o "&lt=" \o ToString(p.lifetime_seconds)
        \o "&lwm2m=" \o p.lwm2m_version
        \o "&b=" \o p.binding \o "&Q"

\* f"{x}" of a str or an int
format(x) == IF x.t = "str" THEN x.v ELSE ToString(x.v)

\* client.py make_register_path; lifetime_seconds is a str (the default
\* "60") or an int
make_register_path(device_name, lifetime_seconds, lwm2m_version, binding) ==
    "/rd?ep=" \o device_name
        \o "&lt=" \o format(lifetime_seconds)
        \o "&lwm2m=" \o lwm2m_version
        \o "&b=" \o binding \o "&Q"

\* lwm2m_client.py make_register_message
make_register_message(server_addr, p) ==
    [op |-> "REGISTER", code |-> "POST",
     uri |-> server_addr \o register_path(p),
     payload |-> "</1/1>,</3/0>,</3303/0>",
     content_format |-> APPLICATION_LINK_FORMAT]

\* client.py make_register_message
client_make_register_message(server_addr, p) ==
    [op |-> "REGISTER", code |-> "POST",
     uri |-> server_addr \o to_register_path(p),
     payload |-> "</1/1>,</3/0>",
     content_format |-> NoFormat]

\* make_update_message with the leading "/" of line 423 left out.
make_update_message_NoLeadingSlash(server_addr, device_location_parts, p) ==
    [op |-> "UPDATE", code |-> "POST",
     uri |-> server_addr \o Join("/", device_location_parts)
                 \o "?lt=" \o ToString(p.lifetime_seconds)
                 \o "&b=" \o p.binding,
     payload |-> "",
     content_format |-> NoFormat]

make_update_message(server_addr, device_location_parts, p) ==
    [op |-> "UPDATE", code |-> "POST",
     uri |-> server_addr \o "/" \o Join("/", device_location_parts)
                 \o "?lt=" \o ToString(p.lifetime_seconds)
                 \o "&b=" \o p.binding,
     payload |-> "",
     content_format |-> NoFormat]

\* make_deregister_path that joins the segments without the leading "/".
make_deregister_path_NoLeadingSlash(device_location_parts) ==
    IF Len(device_location_parts) > 1
    THEN [ok |-> TRUE, path |-> Join("/", device_location_parts)]
    ELSE [ok |-> FALSE, path |-> ""]

\* client.py make_deregister_path: the assert fails unless there are at
\* least two segments.
make_deregister_path(device_location_parts) ==
    IF Len(device_location_parts) > 1
    THEN [ok |-> TRUE, path |-> "/" \o Join("/", device_location_parts)]
    ELSE [ok |-> FALSE, path |-> ""]

make_deregister_message(server_addr, device_location_parts) ==
    [op |-> "DEREGISTER", code |-> "DELETE",
     uri |-> server_addr \o make_deregister_path(device_location_parts).path,
     payload |-> "",
     content_format |-> NoFormat]

\* SEND: POST to /dp with the serialized record array.
make_send_message(server_addr) ==
    [op |-> "SEND", code |-> "POST",
     uri |-> server_addr \o "/dp",
     payload |-> "[senml]",
     content_format |-> NoFormat]

\* update_interval with min in place of max.
update_interval_Min(p) ==
    IF MinimumInterval <= p.lifetime_seconds \div 2
    THEN MinimumInterval ELSE p.lifetime_seconds \div 2

update_interval(p) == Max(MinimumInterval, p.lifetime_seconds \div 2)

(***************************************************************************)
(* Derived state                                                           *)
(***************************************************************************)
LifecycleStateOf(p) ==
    CASE p = "await_register" -> "Registering"
      [] p = "sleep"          -> "Registered"
      [] p = "await_update"   -> "Updating"
      [] p = "await_dereg"    -> "Deregistering"
      [] OTHER                -> "Unregistered"

LifecycleState == LifecycleStateOf(pc)

Count(op) == Cardinality({i \in 1..Len(sent) : sent[i].op = op})

InFlight(ops) == {i \in inflight : sent[i].op \in ops}

NoHistory == [k \in LifecycleOps \X {"failure", "timeout"} |-> "none"]

(***************************************************************************)
(* Initial states                                                          *)
(***************************************************************************)
\* Everything but the temperature cell.
InitShared ==
    /\ interval = 0
    /\ regResponse = NoResponse
    /\ sendTask = "none"
    /\ inflight = {}
    /\ sent = <<>>
    /\ error = "none"
    /\ consecFail = 0
    /\ after = NoHistory
    /\ transportFailed = FALSE
    /\ silent = FALSE
    /\ call = NoCall
    /\ result = NoResult
    /\ payload = <<>>

InitCommon ==
    /\ InitShared
    /\ current_temp = None

\* asyncio.run(main()) of main.py or of client.py
Init ==
    /\ prog \in {"main", "client"}
    /\ pc = "start"
    /\ params = RegistrationParameters(endpoint_name)
    /\ location = <<>>
    /\ InitCommon

\* The same, or a direct call of send_update_loop / the deregister step
\* with arguments chosen by the caller.
InitCall ==
    \/ Init
    \/ /\ prog \in {"call_update", "call_dereg"}
       /\ pc = "call"
       /\ \E lt \in LifetimeChoices :
            params = [RegistrationParameters(endpoint_name)
                        EXCEPT !.lifetime_seconds = lt]
       /\ location \in LocationChoices
       /\ InitCommon

(***************************************************************************)
(* Steps shared by the coroutines                                          *)
(***************************************************************************)
\* coap_client.request(msg): the request goes out and its response is awaited.
Request(msg) ==
    /\ sent' = Append(sent, msg)
    /\ inflight' = inflight \cup {Len(sent) + 1}

\* The response (or exception) of the awaited exchange `op` was delivered.
Resolved(op) == inflight \ InFlight({op})

\* The main coroutine ends (return or exception); asyncio.run then cancels
\* the tasks that are left, so nothing stays outstanding.
Finish(err) ==
    /\ pc' = "done"
    /\ location' = <<>>
    /\ error' = err
    /\ sendTask' = IF sendTask \in {"created", "sleeping", "awaiting"}
                   THEN "cancelled" ELSE sendTask

Seen(op, outcome) ==
    [after EXCEPT ![<<op, outcome>>] = LifecycleStateOf(pc')]

SeenRaise(op, exc) ==
    IF exc = "TimeoutError" THEN Seen(op, "timeout") ELSE after

(***************************************************************************)
(* main.py                                                                 *)
(***************************************************************************)
\* main.py 25-70 / lwm2m_client.register 399-407: build and send REGISTER.
MainStart ==
    /\ prog = "main"
    /\ pc = "start"
    /\ params' = RegistrationParameters(endpoint_name)
    /\ Request(make_register_message(server_url, params'))
    /\ pc' = "await_register"
    /\ UNCHANGED <<prog, location, interval, regResponse, sendTask, error,
                   consecFail, after, transportFailed>>
    /\ UNCHANGED silent
    /\ UNCHANGED callVars

\* RegisterResponse without the `if not location: return` of main 76-78.
RegisterResponse_NoLocationCheck(code, loc) ==
    /\ ~silent
    /\ prog = "main"
    /\ pc = "await_register"
    /\ regResponse' = [code |-> code, location |-> loc]
    /\ IF ~IsSuccessful(code)
       THEN /\ Finish("none")
            /\ inflight' = {}
            /\ UNCHANGED interval
       ELSE /\ location' = loc
            /\ sendTask' = "created"
            /\ interval' = update_interval(params)
            /\ pc' = "sleep"
            /\ inflight' = Resolved("REGISTER")
            /\ UNCHANGED error
    /\ after' = IF IsSuccessful(code) THEN after ELSE Seen("REGISTER", "failure")
    /\ UNCHANGED <<prog, params, sent, consecFail, transportFailed>>
    /\ UNCHANGED silent
    /\ UNCHANGED callVars

\* register 409-417, main 72-97, send_update_loop 444-448: the REGISTER
\* response arrives; on success with a location the SEND task is created and
\* the UPDATE loop goes to its first sleep.
RegisterResponse(code, loc) ==
    /\ ~silent
    /\ prog = "main"
    /\ pc = "await_register"
    /\ regResponse' = [code |-> code, location |-> loc]
    /\ IF ~IsSuccessful(code) \/ loc = <<>>
       THEN /\ Finish("none")
            /\ inflight' = {}
            /\ UNCHANGED interval
       ELSE /\ location' = loc
            /\ sendTask' = "created"
            /\ interval' = update_interval(params)
            /\ pc' = "sleep"
            /\ inflight' = Resolved("REGISTER")
            /\ UNCHANGED error
    /\ after' = IF IsSuccessful(code) THEN after ELSE Seen("REGISTER", "failure")
    /\ UNCHANGED <<prog, params, sent, consecFail, transportFailed>>
    /\ UNCHANGED silent
    /\ UNCHANGED callVars

\* The awaited REGISTER exchange raises: the exception leaves main() in
\* main.py and is caught by the except clause (134-136) in client.py.
RegisterRaise(exc) ==
    /\ pc = "await_register"
    /\ Finish(exc)
    /\ inflight' = {}
    /\ transportFailed' = TRUE
    /\ after' = SeenRaise("REGISTER", exc)
    /\ UNCHANGED <<prog, params, interval, regResponse, sent, consecFail>>
    /\ UNCHANGED silent
    /\ UNCHANGED callVars

\* UpdateWake that does not await the response before the next sleep.
UpdateWake_NoAwait ==
    /\ pc = "sleep"
    /\ Count("UPDATE") < MaxUpdates
    /\ Request(make_update_message(server_url, location, params))
    /\ pc' = "sleep"
    /\ UNCHANGED <<prog, params, location, interval, regResponse, sendTask,
                   error, consecFail, after, transportFailed>>
    /\ UNCHANGED silent
    /\ UNCHANGED callVars

\* send_update_loop 448-451: the sleep is over, UPDATE is built and sent.
UpdateWake ==
    /\ pc = "sleep"
    /\ Count("UPDATE") < MaxUpdates
    /\ Request(make_update_message(server_url, location, params))
    /\ pc' = "await_update"
    /\ UNCHANGED <<prog, params, location, interval, regResponse, sendTask,
                   error, consecFail, after, transportFailed>>
    /\ UNCHANGED silent
    /\ UNCHANGED callVars

\* send_update_loop 451-452, 447-448: the response code is printed and the
\* loop sleeps again, whatever the code.
UpdateResponse(code) ==
    /\ ~silent
    /\ pc = "await_update"
    /\ inflight' = Resolved("UPDATE")
    /\ pc' = "sleep"
    /\ consecFail' = IF IsSuccessful(code) THEN 0 ELSE consecFail + 1
    /\ after' = IF IsSuccessful(code) THEN after ELSE Seen("UPDATE", "failure")
    /\ UNCHANGED <<prog, params, location, interval, regResponse, sendTask,
                   sent, error, transportFailed>>
    /\ UNCHANGED silent
    /\ UNCHANGED callVars

\* The awaited UPDATE exchange raises: the exception leaves the loop and
\* main(); asyncio.run cancels the SEND task.
UpdateRaise(exc) ==
    /\ pc = "await_update"
    /\ Finish(exc)
    /\ inflight' = {}
    /\ consecFail' = consecFail + 1
    /\ transportFailed' = TRUE
    /\ after' = SeenRaise("UPDATE", exc)
    /\ UNCHANGED <<prog, params, interval, regResponse, sent>>
    /\ UNCHANGED silent
    /\ UNCHANGED callVars

\* main.py send_loop 86-90: build the payload and send it.
SendLoopStep ==
    /\ sendTask \in {"created", "sleeping"}
    /\ Count("SEND") < MaxSends
    /\ Request(make_send_message(server_url))
    /\ sendTask' = "awaiting"
    /\ UNCHANGED <<prog, pc, params, location, interval, regResponse, error,
                   consecFail, after, transportFailed>>
    /\ UNCHANGED silent
    /\ UNCHANGED callVars

\* send_loop 90-91: send() returns, the task sleeps 30 seconds.
SendResponse(code) ==
    /\ ~silent
    /\ sendTask = "awaiting"
    /\ inflight' = Resolved("SEND")
    /\ sendTask' = "sleeping"
    /\ UNCHANGED <<prog, pc, params, location, interval, regResponse, sent,
                   error, consecFail, after, transportFailed>>
    /\ UNCHANGED silent
    /\ UNCHANGED callVars

\* send() raises inside the task: the task dies, main() is not affected.
SendRaise(exc) ==
    /\ sendTask = "awaiting"
    /\ inflight' = Resolved("SEND")
    /\ sendTask' = "dead"
    /\ UNCHANGED <<prog, pc, params, location, interval, regResponse, sent,
                   error, consecFail, after, transportFailed>>
    /\ UNCHANGED silent
    /\ UNCHANGED callVars

\* Shutdown that drops the handle and the SEND task but leaves the UPDATE
\* loop scheduled.
Shutdown_LoopNotCancelled ==
    /\ pc \notin {"start", "call", "done"}
    /\ location' = <<>>
    /\ error' = "CancelledError"
    /\ sendTask' = IF sendTask \in {"created", "sleeping", "awaiting"}
                   THEN "cancelled" ELSE sendTask
    /\ inflight' = InFlight({"UPDATE"})
    /\ UNCHANGED <<prog, pc, params, interval, regResponse, sent, consecFail,
                   after, transportFailed>>
    /\ UNCHANGED silent
    /\ UNCHANGED callVars

\* asyncio.run is interrupted: the main coroutine and every task are
\* cancelled at their current await.
Shutdown ==
    /\ pc \notin {"start", "call", "done"}
    /\ Finish("CancelledError")
    /\ inflight' = {}
    /\ UNCHANGED <<prog, params, interval, regResponse, sent, consecFail,
                   after, transportFailed>>
    /\ UNCHANGED silent
    /\ UNCHANGED callVars

\* The server (or the path to it) goes silent: from now on no request is
\* answered. The transport may still raise, but nothing in the client bounds
\* the wait.
ServerSilent ==
    /\ ~silent
    /\ pc \in {"await_register", "sleep", "await_update", "await_dereg"}
    /\ silent' = TRUE
    /\ UNCHANGED <<prog, pc, params, location, interval, regResponse, sendTask,
                   inflight, sent, error, consecFail, after, transportFailed>>
    /\ UNCHANGED callVars

(***************************************************************************)
(* client.py                                                               *)
(***************************************************************************)
\* client.py main 110-114 / register 84-96
ClientStart ==
    /\ prog = "client"
    /\ pc = "start"
    /\ params' = RegistrationParameters(endpoint_name)
    /\ Request(client_make_register_message(server_url, params'))
    /\ pc' = "await_register"
    /\ UNCHANGED <<prog, location, interval, regResponse, sendTask, error,
                   consecFail, after, transportFailed>>
    /\ UNCHANGED silent
    /\ UNCHANGED callVars

\* client.py main 126-129: build the DELETE (the assert of
\* make_deregister_path may fail, which the except clause catches) and
\* send it.
DeregisterStep(loc) ==
    IF make_deregister_path(loc).ok
    THEN /\ sent' = Append(sent, make_deregister_message(server_url, loc))
         /\ inflight' = Resolved("REGISTER") \cup {Len(sent) + 1}
         /\ pc' = "await_dereg"
         /\ location' = loc
         /\ UNCHANGED <<error, sendTask>>
    ELSE /\ Finish("AssertionError")
         /\ inflight' = {}
         /\ UNCHANGED sent

\* client.py register 96-106, main 114-129: the REGISTER response arrives;
\* on success with a location the DEREGISTER follows at once.
ClientRegisterResponse(code, loc) ==
    /\ ~silent
    /\ prog = "client"
    /\ pc = "await_register"
    /\ regResponse' = [code |-> code, location |-> loc]
    /\ IF ~IsSuccessful(code) \/ loc = <<>>
       THEN /\ Finish("none")
            /\ inflight' = {}
            /\ UNCHANGED sent
       ELSE /\ DeregisterStep(loc)
    /\ after' = IF IsSuccessful(code) THEN after ELSE Seen("REGISTER", "failure")
    /\ UNCHANGED <<prog, params, interval, consecFail, transportFailed>>
    /\ UNCHANGED silent
    /\ UNCHANGED callVars

\* DeregResponse that sends the DELETE once more when it was rejected.
DeregResponse_RetryRejected(code) ==
    /\ ~silent
    /\ pc = "await_dereg"
    /\ IF IsSuccessful(code) \/ Count("DEREGISTER") > 1
       THEN /\ Finish("none")
            /\ inflight' = {}
            /\ UNCHANGED sent
       ELSE /\ sent' = Append(sent, make_deregister_message(server_url, location))
            /\ inflight' = {Len(sent) + 1}
            /\ UNCHANGED <<pc, location, error, sendTask>>
    /\ after' = IF IsSuccessful(code) THEN after ELSE Seen("DEREGISTER", "failure")
    /\ UNCHANGED <<prog, params, interval, regResponse, consecFail,
                   transportFailed>>
    /\ UNCHANGED silent
    /\ UNCHANGED callVars

\* client.py main 129-139: the DELETE response arrives, main() ends.
DeregResponse(code) ==
    /\ ~silent
    /\ pc = "await_dereg"
    /\ Finish("none")
    /\ inflight' = {}
    /\ after' = IF IsSuccessful(code) THEN after ELSE Seen("DEREGISTER", "failure")
    /\ UNCHANGED <<prog, params, interval, regResponse, sent, consecFail,
                   transportFailed>>
    /\ UNCHANGED silent
    /\ UNCHANGED callVars

\* client.py main 134-136: the DELETE exchange raises, the except clause
\* prints the error and main() ends.
DeregRaise(exc) ==
    /\ pc = "await_dereg"
    /\ Finish(exc)
    /\ inflight' = {}
    /\ after' = SeenRaise("DEREGISTER", exc)
    /\ UNCHANGED <<prog, params, interval, regResponse, sent, consecFail,
                   transportFailed>>
    /\ UNCHANGED silent
    /\ UNCHANGED callVars

(***************************************************************************)
(* Direct calls                                                            *)
(***************************************************************************)
\* send_update_loop(coap_client, server, device_location_parts, params)
\* 437-448, entered with the caller's arguments.
CallSendUpdateLoop ==
    /\ prog = "call_update"
    /\ pc = "call"
    /\ interval' = update_interval(params)
    /\ pc' = "sleep"
    /\ UNCHANGED <<prog, params, location, regResponse, sendTask, inflight,
                   sent, error, consecFail, after, transportFailed>>
    /\ UNCHANGED silent
    /\ UNCHANGED callVars

\* The deregister step (client.py 126-129) with the caller's location.
CallDeregister ==
    /\ prog = "call_dereg"
    /\ pc = "call"
    /\ DeregisterStep(location)
    /\ UNCHANGED <<prog, params, interval, regResponse, consecFail, after,
                   transportFailed>>
    /\ UNCHANGED silent
    /\ UNCHANGED callVars

(***************************************************************************)
(* Specifications                                                          *)
(***************************************************************************)
Next ==
    \/ MainStart
    \/ \E code \in Codes, loc \in LocationChoices : RegisterResponse(code, loc)
    \/ \E exc \in Exceptions : RegisterRaise(exc)
    \/ UpdateWake
    \/ \E code \in Codes : UpdateResponse(code)
    \/ \E exc \in Exceptions : UpdateRaise(exc)
    \/ SendLoopStep
    \/ \E code \in Codes : SendResponse(code)
    \/ \E exc \in Exceptions : SendRaise(exc)
    \/ Shutdown
    \/ ClientStart
    \/ \E code \in Codes, loc \in LocationChoices :
           ClientRegisterResponse(code, loc)
    \/ \E code \in Codes : DeregResponse(code)
    \/ \E exc \in Exceptions : DeregRaise(exc)
    \/ ServerSilent

Spec == Init /\ [][Next]_vars

\* The event loop runs every coroutine that is ready: the first step of
\* main(), the UPDATE loop when its sleep is over, the SEND task. Whether a
\* response or an exception ever arrives is up to the transport.
FairSpec ==
    /\ Spec
    /\ WF_vars(MainStart)
    /\ WF_vars(ClientStart)
    /\ WF_vars(UpdateWake)
    /\ WF_vars(SendLoopStep)

NextCall ==
    \/ Next
    \/ CallSendUpdateLoop
    \/ CallDeregister

SpecCall == InitCall /\ [][NextCall]_vars

TypeOK ==
    /\ prog \in {"main", "client", "call_update", "call_dereg", "call_tlv",
                "call_get", "call_path", "call_send",
                "call_temp", "call_sensor", "call_walk"}
    /\ pc \in {"start", "call", "await_register", "sleep", "await_update",
               "await_dereg", "done"}
    /\ location \in LocationChoices
    /\ interval \in Nat
    /\ sendTask \in {"none", "created", "sleeping", "awaiting", "dead",
                     "cancelled"}
    /\ inflight \subseteq 1..Len(sent)
    /\ consecFail \in Nat
    /\ transportFailed \in BOOLEAN
    /\ silent \in BOOLEAN

(***************************************************************************)
(* Bytes and text                                                          *)
(***************************************************************************)
\* Runs of printable ASCII with the code of their first character; the
\* characters 34, 92 and 96 are left out.
AsciiRuns ==
    {[base |-> 32, chars |-> " !"],
     [base |-> 35, chars |-> "#$%&'()*+,-./0123456789:;<=>?@"],
     [base |-> 65, chars |-> "ABCDEFGHIJKLMNOPQRSTUVWXYZ["],
     [base |-> 93, chars |-> "]^_"],
     [base |-> 97, chars |-> "abcdefghijklmnopqrstuvwxyz{|}~"]}

\* The code of every character of the runs.
AsciiCodes ==
    [c \in UNION {{SubSeq(r.chars, i, i) : i \in 1..Len(r.chars)} :
                      r \in AsciiRuns} |->
        LET run == CHOOSE r \in AsciiRuns :
                       \E i \in 1..Len(r.chars) : SubSeq(r.chars, i, i) = c
            pos == CHOOSE i \in 1..Len(run.chars) :
                       SubSeq(run.chars, i, i) = c
        IN  run.base + pos - 1]

\* ord(c) of a one-character ASCII string
Ord(c) == AsciiCodes[c]

\* A Python str given as its sequence of code points.
Str(s) == [i \in 1..Len(s) |-> Ord(SubSeq(s, i, i))]

\* The UTF-8 bytes of one code point (a Unicode scalar value).
utf8_char(cp) ==
    IF cp < 128 THEN <<cp>>
    ELSE IF cp < 2048 THEN <<192 + cp \div 64, 128 + (cp % 64)>>
    ELSE IF cp < 65536
         THEN <<224 + cp \div 4096, 128 + ((cp \div 64) % 64), 128 + (cp % 64)>>
    ELSE <<240 + cp \div 262144, 128 + ((cp \div 4096) % 64),
           128 + ((cp \div 64) % 64), 128 + (cp % 64)>>

RECURSIVE utf8_encode(_)
\* str.encode('utf-8')
utf8_encode(cps) ==
    IF cps = <<>> THEN <<>> ELSE utf8_char(Head(cps)) \o utf8_encode(Tail(cps))

RECURSIVE BitOr(_, _)
\* a | b on non-negative integers
BitOr(a, b) ==
    IF a = 0 THEN b
    ELSE IF b = 0 THEN a
    ELSE 2 * BitOr(a \div 2, b \div 2)
             + (IF a % 2 = 1 \/ b % 2 = 1 THEN 1 ELSE 0)

Raised(e) == [error |-> e, bytes |-> <<>>]
Returned(b) == [error |-> "none", bytes |-> b]

\* struct.pack with 'B' fields only: every field must fit an unsigned byte.
pack_B(fields) ==
    IF \A i \in 1..Len(fields) : fields[i] >= 0 /\ fields[i] <= 255
    THEN Returned(fields) ELSE Raised("struct.error")

\* struct.pack('!H', n) for n in 0..65535
pack_H(n) == <<n \div 256, n % 256>>

\* struct.pack('!I', n) for n in 0..2^32-1
pack_I(n) == <<n \div 16777216, (n \div 65536) % 256, (n \div 256) % 256, n % 256>>

\* pack_i with the four bytes in little-endian order.
pack_i_LittleEndian(v) ==
    LET low31 == IF v >= 0 THEN v ELSE (v + 2147483647) + 1
    IN  <<low31 % 256, (low31 \div 256) % 256, (low31 \div 65536) % 256,
          (IF v < 0 THEN 128 ELSE 0) + low31 \div 16777216>>

\* struct.pack('!i', v): big-endian two's complement of an int32
pack_i(v) ==
    LET low31 == IF v >= 0 THEN v ELSE (v + 2147483647) + 1
    IN  <<(IF v < 0 THEN 128 ELSE 0) + low31 \div 16777216,
          (low31 \div 65536) % 256, (low31 \div 256) % 256, low31 % 256>>

(***************************************************************************)
(* Python floats.  A double is [sign, exp, hi, lo]: its value is           *)
(* (-1)^sign * (hi * 2^29 + lo) * 2^(exp - 52), hi the top 24 bits of the  *)
(* 53-bit significand (2^23 <= hi < 2^24) and lo the other 29; zero has    *)
(* hi = lo = 0.                                                            *)
(***************************************************************************)
FloatZero == [sign |-> 0, exp |-> 0, hi |-> 0, lo |-> 0]

\* struct.pack('!f', x): round to nearest even single precision; a finite
\* double beyond the single range raises OverflowError.
pack_f(x) ==
    IF x.hi = 0 THEN Returned(<<x.sign * 128, 0, 0, 0>>)
    ELSE
    LET up   == x.lo > 268435456 \/ (x.lo = 268435456 /\ x.hi % 2 = 1)
        hi1  == IF up THEN x.hi + 1 ELSE x.hi
        hi2  == IF hi1 = 16777216 THEN 8388608 ELSE hi1
        exp2 == IF hi1 = 16777216 THEN x.exp + 1 ELSE x.exp
        e    == exp2 + 127
        m    == hi2 - 8388608
    IN  IF exp2 > 127 THEN Raised("OverflowError")
        ELSE Returned(<<x.sign * 128 + e \div 2,
                        (e % 2) * 128 + m \div 65536,
                        (m \div 256) % 256, m % 256>>)

(***************************************************************************)
(* tlv_encoder.py                                                          *)
(***************************************************************************)
OBJECT_INSTANCE == 0
RESOURCE_VALUE == 192
RESOURCE_INSTANCE == 64
MULTIPLE_RESOURCE == 128

identifier_16bit == FALSE

\* pack_type_id that keeps only the low byte of the identifier.
pack_type_id_Truncating(type_byte, identifier) ==
    pack_B(<<type_byte, identifier % 256>>)

\* struct.pack('!B' + ('H' if identifier_16bit else 'B'), type_byte, identifier)
pack_type_id(type_byte, identifier) ==
    IF identifier_16bit
    THEN IF type_byte >= 0 /\ type_byte <= 255
            /\ identifier >= 0 /\ identifier <= 65535
         THEN Returned(<<type_byte>> \o pack_H(identifier))
         ELSE Raised("struct.error")
    ELSE pack_B(<<type_byte, identifier>>)

\* _encode_tlv_header whose one-byte length field stops below 255.
_encode_tlv_header_Below255(tlv_type, identifier, length) ==
    LET width == IF length <= 7 THEN 0
                 ELSE IF length < 255 THEN 1
                 ELSE IF length <= 65535 THEN 2 ELSE 3
        type_byte == IF width = 0 THEN BitOr(tlv_type, length)
                     ELSE BitOr(tlv_type, width * 8)
        head == pack_type_id(type_byte, identifier)
        length_bytes == CASE width = 0 -> <<>>
                          [] width = 1 -> <<length>>
                          [] width = 2 -> pack_H(length)
                          [] OTHER     -> Tail(pack_I(length))
    IN  IF head.error # "none" THEN head
        ELSE Returned(head.bytes \o length_bytes)

_encode_tlv_header(tlv_type, identifier, length) ==
    LET width == IF length <= 7 THEN 0
                 ELSE IF length <= 255 THEN 1
                 ELSE IF length <= 65535 THEN 2 ELSE 3
        type_byte == IF width = 0 THEN BitOr(tlv_type, length)
                     ELSE BitOr(tlv_type, width * 8)
        head == pack_type_id(type_byte, identifier)
        length_bytes == CASE width = 0 -> <<>>
                          [] width = 1 -> <<length>>
                          [] width = 2 -> pack_H(length)
                          [] OTHER     -> Tail(pack_I(length))
    IN  IF head.error # "none" THEN head
        ELSE Returned(head.bytes \o length_bytes)

\* value_to_bytes that packs an integer into two bytes ('!h').
value_to_bytes_ShortInt(value) ==
    CASE value.t = "bytes" -> Returned(value.v)
      [] value.t = "str"   -> Returned(utf8_encode(value.v))
      [] value.t = "int"   -> Returned(pack_H(value.v % 65536))
      [] value.t = "float" -> pack_f(value.v)

\* The isinstance chain of encode_resource_tlv 106-117.
value_to_bytes(value) ==
    CASE value.t = "bytes" -> Returned(value.v)
      [] value.t = "str"   -> Returned(utf8_encode(value.v))
      [] value.t = "int"   -> Returned(pack_i(value.v))
      [] value.t = "float" -> pack_f(value.v)

encode_resource_tlv(resource_id, value) ==
    LET value_bytes == value_to_bytes(value)
        header == _encode_tlv_header(RESOURCE_VALUE, resource_id,
                                     Len(value_bytes.bytes))
    IN  IF value_bytes.error # "none" THEN value_bytes
        ELSE IF header.error # "none" THEN header
        ELSE Returned(header.bytes \o value_bytes.bytes)

RECURSIVE InsertSorted(_, _)
InsertSorted(item, items) ==
    IF items = <<>> THEN <<item>>
    ELSE IF item[1] < Head(items)[1] THEN <<item>> \o items
    ELSE <<Head(items)>> \o InsertSorted(item, Tail(items))

RECURSIVE sorted(_)
\* sorted(resources.items()) of a dict given as its items in insertion order
sorted(items) ==
    IF items = <<>> THEN <<>> ELSE InsertSorted(Head(items), sorted(Tail(items)))

RECURSIVE encode_resources(_)
\* the loop of encode_instance_tlv 132-134 over the items in the given order
encode_resources(items) ==
    IF items = <<>> THEN Returned(<<>>)
    ELSE LET first == encode_resource_tlv(Head(items)[1], Head(items)[2])
             rest  == encode_resources(Tail(items))
         IN  IF first.error # "none" THEN first
             ELSE IF rest.error # "none" THEN rest
             ELSE Returned(first.bytes \o rest.bytes)

\* encode_instance_tlv that keeps the dict's insertion order.
encode_instance_tlv_Unsorted(instance_id, resources) ==
    LET resources_tlv == encode_resources(resources)
        header == _encode_tlv_header(OBJECT_INSTANCE, instance_id,
                                     Len(resources_tlv.bytes))
    IN  IF resources_tlv.error # "none" THEN resources_tlv
        ELSE IF header.error # "none" THEN header
        ELSE Returned(header.bytes \o resources_tlv.bytes)

\* encode_instance_tlv that declares the number of resources as the length.
encode_instance_tlv_CountsResources(instance_id, resources) ==
    LET resources_tlv == encode_resources(sorted(resources))
        header == _encode_tlv_header(OBJECT_INSTANCE, instance_id,
                                     Len(resources))
    IN  IF resources_tlv.error # "none" THEN resources_tlv
        ELSE IF header.error # "none" THEN header
        ELSE Returned(header.bytes \o resources_tlv.bytes)

encode_instance_tlv(instance_id, resources) ==
    LET resources_tlv == encode_resources(sorted(resources))
        header == _encode_tlv_header(OBJECT_INSTANCE, instance_id,
                                     Len(resources_tlv.bytes))
    IN  IF resources_tlv.error # "none" THEN resources_tlv
        ELSE IF header.error # "none" THEN header
        ELSE Returned(header.bytes \o resources_tlv.bytes)

\* One pass of the loop body of encode_multiple_resources_tlv 152-165: the
\* resource instance idx for one value.
encode_resource_instance(idx, value) ==
    LET value_bytes == value_to_bytes(value)
        header == _encode_tlv_header(RESOURCE_INSTANCE, idx,
                                     Len(value_bytes.bytes))
    IN  IF value_bytes.error # "none" THEN value_bytes
        ELSE IF header.error # "none" THEN header
        ELSE Returned(header.bytes \o value_bytes.bytes)

RECURSIVE encode_resource_instances(_, _, _, _)
\* The loop of encode_multiple_resources_tlv 150-165 over values[lo..hi],
\* numbered from `start`; the first failing pass ends the loop.  The range
\* is halved so that the evaluation stays shallow for long lists.
encode_resource_instances(values, start, lo, hi) ==
    IF lo > hi THEN Returned(<<>>)
    ELSE IF lo = hi
    THEN encode_resource_instance(start + (lo - 1), values[lo])
    ELSE LET mid   == (lo + hi) \div 2
             left  == encode_resource_instances(values, start, lo, mid)
             right == encode_resource_instances(values, start, mid + 1, hi)
         IN  IF left.error # "none" THEN left
             ELSE IF right.error # "none" THEN right
             ELSE Returned(left.bytes \o right.bytes)

\* encode_multiple_resources_tlv that numbers the instances from 1.
encode_multiple_resources_tlv_FromOne(resource_id, values) ==
    LET instances_tlv == encode_resource_instances(values, 1, 1, Len(values))
        header == _encode_tlv_header(MULTIPLE_RESOURCE, resource_id,
                                     Len(instances_tlv.bytes))
    IN  IF instances_tlv.error # "none" THEN instances_tlv
        ELSE IF header.error # "none" THEN header
        ELSE Returned(header.bytes \o instances_tlv.bytes)

encode_multiple_resources_tlv(resource_id, values) ==
    LET instances_tlv == encode_resource_instances(values, 0, 1, Len(values))
        header == _encode_tlv_header(MULTIPLE_RESOURCE, resource_id,
                                     Len(instances_tlv.bytes))
    IN  IF instances_tlv.error # "none" THEN instances_tlv
        ELSE IF header.error # "none" THEN header
        ELSE Returned(header.bytes \o instances_tlv.bytes)

build_device_instance_tlv(device_values) == encode_instance_tlv(0, device_values)
build_server_instance_tlv(server_values) == encode_instance_tlv(1, server_values)
build_temperature_instance_tlv(temperature_values) ==
    encode_instance_tlv(0, temperature_values)

(***************************************************************************)
(* TLV decoder.  The repository has no decoder; this one follows the       *)
(* decoding procedure of the design (section 4.3).                         *)
(***************************************************************************)
Malformed == [error |-> "MalformedTLV", elems |-> <<>>]

\* The header at the front of b: kind, identifier, header size, value length.
decode_header(b) ==
    LET byte0 == b[1]
        sel   == (byte0 \div 8) % 4
        size  == 2 + sel
        len   == CASE sel = 0 -> byte0 % 8
                   [] sel = 1 -> b[3]
                   [] sel = 2 -> b[3] * 256 + b[4]
                   [] OTHER   -> b[3] * 65536 + b[4] * 256 + b[5]
    IN  IF Len(b) < 2 \/ (byte0 \div 32) % 2 = 1 \/ Len(b) < 2 + sel
        THEN [ok |-> FALSE]
        ELSE IF Len(b) < size + len THEN [ok |-> FALSE]
        ELSE [ok |-> TRUE, kind |-> (byte0 \div 64) * 64, id |-> b[2],
              size |-> size, len |-> len]

RECURSIVE decode_tlv(_)
\* The sequence of elements in b; containers carry their decoded children.
decode_tlv(b) ==
    IF b = <<>> THEN [error |-> "none", elems |-> <<>>]
    ELSE
    LET h == decode_header(b)
    IN  IF ~h.ok THEN Malformed
        ELSE
        LET value == SubSeq(b, h.size + 1, h.size + h.len)
            inner == IF h.kind \in {OBJECT_INSTANCE, MULTIPLE_RESOURCE}
                     THEN decode_tlv(value)
                     ELSE [error |-> "none", elems |-> <<>>]
            rest  == decode_tlv(SubSeq(b, h.size + h.len + 1, Len(b)))
        IN  IF inner.error # "none" \/ rest.error # "none" THEN Malformed
            ELSE [error |-> "none",
                  elems |-> <<[kind |-> h.kind, id |-> h.id, value |-> value,
                               children |-> inner.elems]>> \o rest.elems]

\* How many bytes the UTF-8 sequence starting with byte b0 has.
utf8_width(b0) ==
    IF b0 < 128 THEN 1 ELSE IF b0 < 224 THEN 2 ELSE IF b0 < 240 THEN 3 ELSE 4

RECURSIVE utf8_decode(_)
\* bytes.decode('utf-8') of well-formed UTF-8
utf8_decode(b) ==
    IF b = <<>> THEN <<>>
    ELSE
    LET w  == utf8_width(b[1])
        cp == CASE w = 1 -> b[1]
                [] w = 2 -> (b[1] % 32) * 64 + (b[2] % 64)
                [] w = 3 -> (b[1] % 16) * 4096 + (b[2] % 64) * 64 + (b[3] % 64)
                [] OTHER -> (b[1] % 8) * 262144 + (b[2] % 64) * 4096
                                + (b[3] % 64) * 64 + (b[4] % 64)
    IN  <<cp>> \o utf8_decode(SubSeq(b, w + 1, Len(b)))

\* struct.unpack('!i', b)
unpack_i(b) ==
    LET low31 == (b[1] % 128) * 16777216 + b[2] * 65536 + b[3] * 256 + b[4]
    IN  IF b[1] >= 128 THEN (low31 - 2147483647) - 1 ELSE low31

\* struct.unpack('!f', b), widened to a double, for zero and normal numbers
unpack_f(b) ==
    LET sign == b[1] \div 128
        e    == (b[1] % 128) * 2 + b[2] \div 128
        m    == (b[2] % 128) * 65536 + b[3] * 256 + b[4]
    IN  IF e = 0 /\ m = 0 THEN [sign |-> sign, exp |-> 0, hi |-> 0, lo |-> 0]
        ELSE [sign |-> sign, exp |-> e - 127, hi |-> 8388608 + m, lo |-> 0]

\* The raw value bytes read back in the datatype the caller declares.
decode_value(b, t) ==
    CASE t = "bytes" -> [t |-> t, v |-> b]
      [] t = "str"   -> [t |-> t, v |-> utf8_decode(b)]
      [] t = "int"   -> [t |-> t, v |-> unpack_i(b)]
      [] t = "float" -> [t |-> t, v |-> unpack_f(b)]

(***************************************************************************)
(* Codec calls                                                             *)
(***************************************************************************)
TlvTypes == {OBJECT_INSTANCE, RESOURCE_VALUE, RESOURCE_INSTANCE,
             MULTIPLE_RESOURCE}

\* Identifiers a caller may pass (5700 is the temperature Sensor Value).
IdChoices == {-1, 0, 1, 13, 255, 256, 5700, 65535, 65536}

\* Value lengths around every width boundary, up to the largest int.
LengthChoices ==
    {0, 1, 7, 8, 9, 254, 255, 256, 257, 65534, 65535, 65536, 65537,
     16777214, 16777215, 16777216, 16777217, 33554432, 2147483647}

\* float("21.37"), float("21.25"), 1.0, -0.5, the largest double below
\* 2^128 (too large for single precision), the largest single, and the
\* double next above it.
FloatChoices ==
    {FloatZero,
     [sign |-> 0, exp |-> 4, hi |-> 11204034, lo |-> 300647711],
     [sign |-> 0, exp |-> 4, hi |-> 11141120, lo |-> 0],
     [sign |-> 0, exp |-> 0, hi |-> 8388608, lo |-> 0],
     [sign |-> 1, exp |-> -1, hi |-> 8388608, lo |-> 0],
     [sign |-> 0, exp |-> 127, hi |-> 16777215, lo |-> 536870911],
     [sign |-> 0, exp |-> 127, hi |-> 16777215, lo |-> 0],
     [sign |-> 0, exp |-> 127, hi |-> 16777215, lo |-> 1]}

IntChoices == {0, 1, -1, 60, 255, 256, -256, 65536, 2147483647,
               (-2147483647) - 1}

StrChoices == {<<>>, Str("U"), Str("1.0.0"), Str("Malaria Corp."),
               <<233>>, <<8364, 49>>, <<128512>>}

BytesChoices == {<<>>, <<0>>, <<255, 0, 128>>, <<1, 2, 3, 4, 5, 6, 7, 8>>}

\* The leaf values of one Python type.
LeafValues(t) ==
    {[t |-> t, v |-> x] :
        x \in CASE t = "float" -> FloatChoices
                 [] t = "int"   -> IntChoices
                 [] t = "str"   -> StrChoices
                 [] t = "bytes" -> BytesChoices}

LeafTypes == {"float", "int", "str", "bytes"}

\* Resources a caller may put into an instance dict.
ItemChoices ==
    {<<0, [t |-> "str", v |-> Str("Malaria Corp.")]>>,
     <<1, [t |-> "int", v |-> 60]>>,
     <<7, [t |-> "str", v |-> Str("U")]>>,
     <<13, [t |-> "str", v |-> Str("1700000000")]>>}

\* Every dict over ItemChoices, as its items in every insertion order.
DictChoices ==
    UNION {{d \in [1..n -> ItemChoices] :
               \A i, j \in 1..n : i # j => d[i] # d[j]} :
           n \in 0..Cardinality(ItemChoices)}

\* One more value than a one-byte instance index can number.
MaxInstances == 257

\* Lengths of opaque values that make a container's children longer than a
\* one-byte and than a two-byte length field can declare.
LongLength == 300
HugeLength == 65536

\* A bytes value of n zero bytes.
Opaque(n) == [t |-> "bytes", v |-> [i \in 1..n |-> 0]]

\* Dicts with one long opaque resource, inserted before a shorter one.
LargeDictChoices ==
    {<<(<<5, Opaque(n)>>), <<0, [t |-> "str", v |-> Str("U")]>>>> :
        n \in {LongLength, HugeLength}}

\* The value lists a caller may pass, themselves in a list: none, one,
\* several of one type, mixed types, a repeated value, MaxInstances
\* integers, and lists with a long opaque value.
ListChoices ==
    <<(<<>>),
      <<[t |-> "int", v |-> 60]>>,
      <<[t |-> "int", v |-> 60], [t |-> "int", v |-> -1]>>,
      <<[t |-> "str", v |-> Str("U")], [t |-> "int", v |-> 60],
        [t |-> "bytes", v |-> <<255, 0, 128>>]>>,
      <<[t |-> "str", v |-> Str("U")], [t |-> "str", v |-> Str("U")],
        [t |-> "str", v |-> Str("U")]>>,
      <<[t |-> "float", v |-> FloatZero],
        [t |-> "bytes", v |-> <<1, 2, 3, 4, 5, 6, 7, 8>>]>>,
      [i \in 1..MaxInstances |-> [t |-> "int", v |-> i]],
      <<Opaque(LongLength)>>,
      <<[t |-> "int", v |-> 60], Opaque(HugeLength)>>>>

InitTlv ==
    /\ prog = "call_tlv"
    /\ pc = "call"
    /\ params = RegistrationParameters(endpoint_name)
    /\ location = <<>>
    /\ InitCommon

CallEncodeHeader(tlv_type, identifier, length) ==
    /\ prog = "call_tlv"
    /\ call' = [fn |-> "_encode_tlv_header", tlv_type |-> tlv_type,
                identifier |-> identifier, length |-> length]
    /\ result' = _encode_tlv_header(tlv_type, identifier, length)
    /\ UNCHANGED <<lifecycleVars, current_temp, payload>>

CallEncodeResource(resource_id, value) ==
    /\ prog = "call_tlv"
    /\ call' = [fn |-> "encode_resource_tlv", resource_id |-> resource_id,
                value |-> value]
    /\ result' = encode_resource_tlv(resource_id, value)
    /\ UNCHANGED <<lifecycleVars, current_temp, payload>>

CallEncodeInstance(instance_id, resources) ==
    /\ prog = "call_tlv"
    /\ call' = [fn |-> "encode_instance_tlv", instance_id |-> instance_id,
                resources |-> resources]
    /\ result' = encode_instance_tlv(instance_id, resources)
    /\ UNCHANGED <<lifecycleVars, current_temp, payload>>

\* TemperatureInstanceResource's read branch: the instance built from the
\* dict {5700: float(temp)}.
CallBuildTemperatureInstance(temp) ==
    /\ prog = "call_tlv"
    /\ call' = [fn |-> "build_temperature_instance_tlv",
                resources |-> <<<<5700, [t |-> "float", v |-> temp]>>>>]
    /\ result' = build_temperature_instance_tlv(
                      <<<<5700, [t |-> "float", v |-> temp]>>>>)
    /\ UNCHANGED <<lifecycleVars, current_temp, payload>>

CallEncodeMultiple(resource_id, values) ==
    /\ prog = "call_tlv"
    /\ call' = [fn |-> "encode_multiple_resources_tlv",
                resource_id |-> resource_id, values |-> values]
    /\ result' = encode_multiple_resources_tlv(resource_id, values)
    /\ UNCHANGED <<lifecycleVars, current_temp, payload>>

NextTlv ==
    \/ \E t \in TlvTypes, id \in IdChoices, n \in LengthChoices :
           CallEncodeHeader(t, id, n)
    \/ \E id \in IdChoices, t \in LeafTypes :
           \E v \in LeafValues(t) : CallEncodeResource(id, v)
    \/ \E id \in {0, 1}, d \in DictChoices \cup LargeDictChoices :
           CallEncodeInstance(id, d)
    \/ \E x \in FloatChoices : CallBuildTemperatureInstance(x)
    \/ \E id \in {6, 256}, k \in DOMAIN ListChoices :
           CallEncodeMultiple(id, ListChoices[k])

SpecTlv == InitTlv /\ [][NextTlv]_vars

(***************************************************************************)
(* Data model read by the resource handlers                                *)
(***************************************************************************)
TEXT_PLAIN == 0
LWM2M_TLV == 11542
LWM2M_JSON == 11543

\* RootListing that goes down to the resources of /3303/0.
RootListing_WithResources ==
    <<(<<"1">>), <<"1", "1">>, (<<"3">>), <<"3", "0">>, (<<"3303">>),
      <<"3303", "0">>, <<"3303", "0", "5700">>>>

\* A path is the tuple of its segments: /3/0 is <<"3", "0">>, "/" is <<>>.
\* A link-format payload is the sequence of the paths it lists.
\* The payload of RootResource.render_get.
RootListing ==
    <<(<<"1">>), <<"1", "1">>, (<<"3">>), <<"3", "0">>, (<<"3303">>),
      <<"3303", "0">>>>

DeviceResourceIds ==
    <<"0", "1", "2", "3", "6", "7", "8", "9", "10", "11", "13", "14", "15",
      "16">>

DISCOVER_3_0_PAYLOAD ==
    [i \in DOMAIN DeviceResourceIds |-> <<"3", "0", DeviceResourceIds[i]>>]

\* DISCOVER_3303_0_PAYLOAD that also lists the resource of another instance.
DISCOVER_3303_0_PAYLOAD_OtherInstance ==
    <<(<<"3303", "0", "5700">>), <<"3303", "1", "5700">>>>

DISCOVER_3303_0_PAYLOAD == <<(<<"3303", "0", "5700">>)>>

\* The dict as its items in the order of the literal.
DEVICE_STATIC_VALUES ==
    <<(<<(<<"3", "0", "0">>), "Malaria Corp.">>),
      <<(<<"3", "0", "1">>), "Malaria-Client-01">>,
      <<(<<"3", "0", "2">>), "SN-00000001">>,
      <<(<<"3", "0", "3">>), "1.0.0">>,
      <<(<<"3", "0", "6">>), "0">>,
      <<(<<"3", "0", "7">>), "5000">>,
      <<(<<"3", "0", "8">>), "100">>,
      <<(<<"3", "0", "9">>), "100">>,
      <<(<<"3", "0", "10">>), "1024">>,
      <<(<<"3", "0", "11">>), "0">>,
      <<(<<"3", "0", "14">>), "+01:00">>,
      <<(<<"3", "0", "15">>), "Europe/Warsaw">>,
      <<(<<"3", "0", "16">>), "U">>>>

SHORT_SERVER_ID == 1
LIFETIME == 60
BINDING == "U"

SERVER_VALUES ==
    <<(<<(<<"1", "1", "0">>), ToString(SHORT_SERVER_ID)>>),
      <<(<<"1", "1", "1">>), ToString(LIFETIME)>>,
      <<(<<"1", "1", "7">>), BINDING>>>>

\* dict.get(key): the value of the item with that key, or "" for None (no
\* value of these dicts is the empty string).
DictGet(items, key) ==
    IF \E i \in DOMAIN items : items[i][1] = key
    THEN items[CHOOSE i \in DOMAIN items : items[i][1] = key][2]
    ELSE ""

RECURSIVE int(_)
\* int(s) of a string of decimal digits
int(s) ==
    IF Len(s) = 0 THEN 0
    ELSE int(SubSeq(s, 1, Len(s) - 1)) * 10
             + (Ord(SubSeq(s, Len(s), Len(s))) - Ord("0"))

\* str.encode("utf-8") of a text
encode_utf8(s) == utf8_encode(Str(s))

\* _read_current_time_epoch: str(int(time.time())) at a clock reading
_read_current_time_epoch(now) == ToString(now)

\* Clock readings, in seconds since the epoch.
TimeChoices == {1700000000, 1762423200}

\* read_device_value: the payload bytes, or None
read_device_value(path, now) ==
    IF path = <<"3", "0", "13">>
    THEN [none |-> FALSE, bytes |-> encode_utf8(_read_current_time_epoch(now))]
    ELSE IF DictGet(DEVICE_STATIC_VALUES, path) # ""
    THEN [none |-> FALSE,
          bytes |-> encode_utf8(DictGet(DEVICE_STATIC_VALUES, path))]
    ELSE [none |-> TRUE, bytes |-> <<>>]

\* dict assignment resources[key] = value on a dict given as its items
DictSet(items, key, value) ==
    IF \E i \in DOMAIN items : items[i][1] = key
    THEN [i \in DOMAIN items |->
             IF items[i][1] = key THEN <<key, value>> ELSE items[i]]
    ELSE Append(items, <<key, value>>)

RECURSIVE device_static_resources(_)
\* the loop of get_all_device_resources 114-119 over the first n items
device_static_resources(n) ==
    IF n = 0 THEN <<>>
    ELSE LET path  == DEVICE_STATIC_VALUES[n][1]
             value == DEVICE_STATIC_VALUES[n][2]
             sofar == device_static_resources(n - 1)
         IN  IF Len(path) = 3 /\ path[1] = "3" /\ path[2] = "0"
             THEN DictSet(sofar, int(path[3]), [t |-> "str", v |-> Str(value)])
             ELSE sofar

\* The dict after the loop over all of DEVICE_STATIC_VALUES.
DeviceStaticResources == device_static_resources(Len(DEVICE_STATIC_VALUES))

\* get_all_device_resources without the Current Time resource.
get_all_device_resources_StaticOnly(now) == DeviceStaticResources

get_all_device_resources(now) ==
    DictSet(DeviceStaticResources, 13,
            [t |-> "str", v |-> Str(_read_current_time_epoch(now))])

\* Not defined in server_model.py: the values of /1/1 keyed by resource id,
\* as in the example of build_server_instance_tlv.
get_all_server_resources ==
    <<(<<0, [t |-> "int", v |-> SHORT_SERVER_ID]>>),
      <<1, [t |-> "int", v |-> LIFETIME]>>,
      <<7, [t |-> "str", v |-> Str(BINDING)]>>>>

read_server_value(path) ==
    IF DictGet(SERVER_VALUES, path) # ""
    THEN [none |-> FALSE, bytes |-> encode_utf8(DictGet(SERVER_VALUES, path))]
    ELSE [none |-> TRUE, bytes |-> <<>>]

(***************************************************************************)
(* The simulated temperature.  _current_temp is kept in hundredths of a    *)
(* degree; random.uniform is a choice the caller of the operators makes.   *)
(***************************************************************************)
T_MIN == 2000
T_MAX == 2600
T_STEP == 30

Min(a, b) == IF a <= b THEN a ELSE b

\* f"{t:.2f}" of a temperature in hundredths
format_2f(h) ==
    ToString(h \div 100) \o "." \o ToString((h % 100) \div 10)
        \o ToString(h % 10)

\* read_temperature_value: the new _current_temp and the returned bytes
read_temperature_value(cur, rnd) ==
    LET temp == IF cur = None THEN rnd
                ELSE Max(T_MIN, Min(T_MAX, cur + rnd))
    IN  [temp |-> temp, bytes |-> encode_utf8(format_2f(temp))]

\* Values random.uniform may return for the state cur: a first reading at
\* or one step above T_MIN, then a step down or none.
RandomChoices(cur) ==
    IF cur = None THEN {T_MIN, T_MIN + T_STEP} ELSE {-T_STEP, 0}

RECURSIVE bit_length(_)
bit_length(n) == IF n = 0 THEN 0 ELSE 1 + bit_length(n \div 2)

\* The first n <= 24 binary digits of r/100 (as a number) and what is left
\* of r, for 0 <= r < 100.
binary_fraction(r, n) ==
    [val |-> (r * (2 ^ n)) \div 100, rem |-> (r * (2 ^ n)) % 100]

\* The double nearest to h/100 (ties to even), for 100 <= h < 100 * 2^24.
double_of_hundredths(h) ==
    LET q    == h \div 100
        k    == bit_length(q)
        top  == binary_fraction(h % 100, 24 - k)
        mid  == binary_fraction(top.rem, 24)
        low  == binary_fraction(mid.rem, 5)
        lo0  == mid.val * 32 + low.val
        up   == \/ 2 * low.rem > 100
                \/ 2 * low.rem = 100 /\ lo0 % 2 = 1
        lo1  == IF up THEN lo0 + 1 ELSE lo0
        hi0  == q * (2 ^ (24 - k)) + top.val
        hi1  == IF lo1 = 536870912 THEN hi0 + 1 ELSE hi0
    IN  [sign |-> 0,
         exp  |-> IF hi1 = 16777216 THEN k ELSE k - 1,
         hi   |-> IF hi1 = 16777216 THEN 8388608 ELSE hi1,
         lo   |-> IF lo1 = 536870912 THEN 0 ELSE lo1]

RECURSIVE digits_value(_)
\* The number the decimal digits of the text spell, the point left out.
digits_value(cps) ==
    IF cps = <<>> THEN 0
    ELSE LET c    == cps[Len(cps)]
             rest == digits_value(SubSeq(cps, 1, Len(cps) - 1))
         IN  IF c = Ord(".") THEN rest ELSE rest * 10 + (c - Ord("0"))

\* float(text) of a text written by format_2f
float(cps) == double_of_hundredths(digits_value(cps))

(***************************************************************************)
(* Resource handlers (READ / DISCOVER)                                     *)
(***************************************************************************)
CONTENT == "2.05 Content"
NOT_FOUND == "4.04 Not Found"
NOT_ACCEPTABLE == "4.06 Not Acceptable"

\* Message(code=..., payload=..., content_format=...): a link-format payload
\* is kept as the paths it lists, any other payload as its bytes.
Message(code, links, bytes, content_format) ==
    [error |-> "none", code |-> code, links |-> links, bytes |-> bytes,
     content_format |-> content_format]

\* Message(code=...) without payload
EmptyMessage(code) == Message(code, <<>>, <<>>, None)

\* render_get left by an exception: no Message is returned.
Escaped(exc) ==
    [error |-> exc, code |-> "none", links |-> <<>>, bytes |-> <<>>,
     content_format |-> None]

\* The READ branch of the object and instance handlers: the instance in TLV.
TlvMessage(tlv) ==
    IF tlv.error # "none" THEN Escaped(tlv.error)
    ELSE Message(CONTENT, <<>>, tlv.bytes, LWM2M_TLV)

RootResource_render_get(request_accept) ==
    LET accept == IF request_accept \in {None, 0} THEN APPLICATION_LINK_FORMAT
                  ELSE request_accept
    IN  IF accept = APPLICATION_LINK_FORMAT
        THEN Message(CONTENT, RootListing, <<>>, APPLICATION_LINK_FORMAT)
        ELSE EmptyMessage(NOT_ACCEPTABLE)

\* The temperature handlers also give the new _current_temp.
TemperatureObjectResource_render_get(accept, cur, rnd) ==
    IF accept = APPLICATION_LINK_FORMAT
    THEN [msg  |-> Message(CONTENT, <<(<<"3303", "0">>)>>, <<>>,
                           APPLICATION_LINK_FORMAT),
          temp |-> cur]
    ELSE IF accept = None \/ accept = LWM2M_TLV
    THEN LET read == read_temperature_value(cur, rnd)
             temperature_resources ==
                 <<(<<5700, [t |-> "float",
                             v |-> float(utf8_decode(read.bytes))]>>)>>
         IN  [msg  |-> TlvMessage(build_temperature_instance_tlv(
                                      temperature_resources)),
              temp |-> read.temp]
    ELSE [msg |-> EmptyMessage(NOT_ACCEPTABLE), temp |-> cur]

TemperatureInstanceResource_render_get(accept, cur, rnd) ==
    IF accept = APPLICATION_LINK_FORMAT
    THEN [msg  |-> Message(CONTENT, DISCOVER_3303_0_PAYLOAD, <<>>,
                           APPLICATION_LINK_FORMAT),
          temp |-> cur]
    ELSE IF accept = None \/ accept = LWM2M_TLV
    THEN LET read == read_temperature_value(cur, rnd)
             temperature_resources ==
                 <<(<<5700, [t |-> "float",
                             v |-> float(utf8_decode(read.bytes))]>>)>>
         IN  [msg  |-> TlvMessage(build_temperature_instance_tlv(
                                      temperature_resources)),
              temp |-> read.temp]
    ELSE [msg |-> EmptyMessage(NOT_ACCEPTABLE), temp |-> cur]

\* TemperatureValueResource.render_get that answers with the value the cell
\* held before this read replaced it.
TemperatureValueResource_render_get_Stale(accept, cur, rnd) ==
    LET read == read_temperature_value(cur, rnd)
    IN  [msg  |-> Message(CONTENT, <<>>,
                          encode_utf8(format_2f(IF cur = None THEN 0 ELSE cur)),
                          TEXT_PLAIN),
         temp |-> read.temp]

\* accept is computed (line 162) and not used.
TemperatureValueResource_render_get(accept, cur, rnd) ==
    LET read == read_temperature_value(cur, rnd)
    IN  [msg  |-> Message(CONTENT, <<>>, read.bytes, TEXT_PLAIN),
         temp |-> read.temp]

ServerObjectResource_render_get(accept) ==
    IF accept = APPLICATION_LINK_FORMAT
    THEN Message(CONTENT, <<(<<"1", "1">>)>>, <<>>, APPLICATION_LINK_FORMAT)
    ELSE IF accept = None \/ accept = LWM2M_TLV
    THEN TlvMessage(build_server_instance_tlv(get_all_server_resources))
    ELSE EmptyMessage(NOT_ACCEPTABLE)

ServerInstanceResource_render_get(accept) ==
    IF accept = APPLICATION_LINK_FORMAT
    THEN Message(CONTENT,
                 <<(<<"1", "1", "0">>), <<"1", "1", "1">>, <<"1", "1", "7">>>>,
                 <<>>, APPLICATION_LINK_FORMAT)
    ELSE IF accept = None \/ accept = LWM2M_TLV
    THEN TlvMessage(build_server_instance_tlv(get_all_server_resources))
    ELSE EmptyMessage(NOT_ACCEPTABLE)

ServerValueResource_render_get(self_path) ==
    LET value == read_server_value(self_path)
    IN  IF ~value.none THEN Message(CONTENT, <<>>, value.bytes, TEXT_PLAIN)
        ELSE EmptyMessage(NOT_FOUND)

DeviceObjectResource_render_get(accept, now) ==
    IF accept = APPLICATION_LINK_FORMAT
    THEN Message(CONTENT, <<(<<"3", "0">>)>>, <<>>, APPLICATION_LINK_FORMAT)
    ELSE IF accept = None \/ accept = LWM2M_TLV
    THEN TlvMessage(build_device_instance_tlv(get_all_device_resources(now)))
    ELSE EmptyMessage(NOT_ACCEPTABLE)

DeviceInstanceResource_render_get(accept, now) ==
    IF accept = APPLICATION_LINK_FORMAT
    THEN Message(CONTENT, DISCOVER_3_0_PAYLOAD, <<>>, APPLICATION_LINK_FORMAT)
    ELSE IF accept = None \/ accept = LWM2M_TLV
    THEN TlvMessage(build_device_instance_tlv(get_all_device_resources(now)))
    ELSE EmptyMessage(NOT_ACCEPTABLE)

DeviceValueResource_render_get(self_path, now) ==
    LET value == read_device_value(self_path, now)
    IN  IF ~value.none THEN Message(CONTENT, <<>>, value.bytes, TEXT_PLAIN)
        ELSE EmptyMessage(NOT_FOUND)

(***************************************************************************)
(* The site of main.py and GET requests                                    *)
(***************************************************************************)
\* A handler object: its class and the path it answers for (self.path of
\* the value resources, the path in the docstring of the other classes).
Handler(class, path) == [class |-> class, path |-> path]

\* root.add_resource(path, handler) of main 32-56: every handler is added
\* under its own path.
Site ==
    {Handler("RootResource", <<>>),
     Handler("TemperatureObjectResource", <<"3303">>),
     Handler("TemperatureInstanceResource", <<"3303", "0">>),
     Handler("TemperatureValueResource", <<"3303", "0", "5700">>),
     Handler("ServerValueResource", <<"1", "1", "0">>),
     Handler("ServerValueResource", <<"1", "1", "1">>),
     Handler("ServerValueResource", <<"1", "1", "7">>),
     Handler("DeviceObjectResource", <<"3">>),
     Handler("DeviceInstanceResource", <<"3", "0">>)}
        \cup {Handler("DeviceValueResource", DISCOVER_3_0_PAYLOAD[i]) :
                  i \in DOMAIN DISCOVER_3_0_PAYLOAD}

\* Handler objects main does not add to the site: the two classes it
\* never constructs, and value resources for paths without a value.
HandlerChoices ==
    {Handler("ServerObjectResource", <<"1">>),
     Handler("ServerInstanceResource", <<"1", "1">>),
     Handler("ServerValueResource", <<"1", "1", "8">>),
     Handler("DeviceValueResource", <<"3", "0", "4">>)}

\* Request paths: every path with a handler object, and two without.
PathChoices ==
    {h.path : h \in Site \cup HandlerChoices} \cup {<<"3303", "1">>, <<"5">>}

\* Accept options: absent, text/plain, link-format, TLV, JSON.
AcceptChoices == {None, TEXT_PLAIN, APPLICATION_LINK_FORMAT, LWM2M_TLV,
                  LWM2M_JSON}

ReadsTemperature(handler, accept) ==
    \/ handler.class = "TemperatureValueResource"
    \/ /\ handler.class \in {"TemperatureObjectResource",
                             "TemperatureInstanceResource"}
       /\ accept \in {None, LWM2M_TLV}

ReadsClock(handler, accept) ==
    \/ handler = Handler("DeviceValueResource", <<"3", "0", "13">>)
    \/ /\ handler.class \in {"DeviceObjectResource", "DeviceInstanceResource"}
       /\ accept \in {None, LWM2M_TLV}

\* What random.uniform and time.time may give to one call of the handler.
RandomInputs(handler, accept, cur) ==
    IF ReadsTemperature(handler, accept) THEN RandomChoices(cur) ELSE {0}

ClockInputs(handler, accept) ==
    IF ReadsClock(handler, accept) THEN TimeChoices
    ELSE {CHOOSE now \in TimeChoices : \A other \in TimeChoices : now <= other}

\* handler.render_get(request): the Message or the exception, and the new
\* _current_temp.
render_get(handler, accept, cur, rnd, now) ==
    LET class == handler.class
        same(msg) == [msg |-> msg, temp |-> cur]
    IN  CASE class = "RootResource" -> same(RootResource_render_get(accept))
          [] class = "TemperatureObjectResource" ->
                 TemperatureObjectResource_render_get(accept, cur, rnd)
          [] class = "TemperatureInstanceResource" ->
                 TemperatureInstanceResource_render_get(accept, cur, rnd)
          [] class = "TemperatureValueResource" ->
                 TemperatureValueResource_render_get(accept, cur, rnd)
          [] class = "ServerObjectResource" ->
                 same(ServerObjectResource_render_get(accept))
          [] class = "ServerInstanceResource" ->
                 same(ServerInstanceResource_render_get(accept))
          [] class = "ServerValueResource" ->
                 same(ServerValueResource_render_get(handler.path))
          [] class = "DeviceObjectResource" ->
                 same(DeviceObjectResource_render_get(accept, now))
          [] class = "DeviceInstanceResource" ->
                 same(DeviceInstanceResource_render_get(accept, now))
          [] class = "DeviceValueResource" ->
                 same(DeviceValueResource_render_get(handler.path, now))

NoHandler == Handler("none", <<>>)

\* The handler the site has for a request path.
SiteLookup(path) ==
    IF \E h \in Site : h.path = path
    THEN CHOOSE h \in Site : h.path = path
    ELSE NoHandler

InitGet ==
    /\ prog = "call_get"
    /\ pc = "call"
    /\ params = RegistrationParameters(endpoint_name)
    /\ location = <<>>
    /\ InitCommon

\* What one call leaves behind: the response (or the exception that
\* escaped the handler) and the module's _current_temp the handler set.
Respond(fn, path, accept, handler, out) ==
    /\ call' = [fn |-> fn, path |-> path, accept |-> accept,
                handler |-> handler]
    /\ result' = out.msg
    /\ current_temp' = out.temp
    /\ UNCHANGED <<lifecycleVars, payload>>

\* The site's dispatch: the handler added for the path renders the
\* request; a path without handler is answered 4.04 by the site itself.
Dispatch(fn, path, accept, handler) ==
    IF handler = NoHandler
    THEN Respond(fn, path, accept, handler,
                 [msg |-> EmptyMessage(NOT_FOUND), temp |-> current_temp])
    ELSE \E rnd \in RandomInputs(handler, accept, current_temp),
            now \in ClockInputs(handler, accept) :
             Respond(fn, path, accept, handler,
                     render_get(handler, accept, current_temp, rnd, now))

\* An inbound GET served by the site.
Get(path, accept) ==
    /\ prog = "call_get"
    /\ Dispatch("GET", path, accept, SiteLookup(path))

\* render_get called on a handler object that is not on the site.
CallRenderGet(handler, accept) ==
    /\ prog = "call_get"
    /\ \E rnd \in RandomInputs(handler, accept, current_temp),
          now \in ClockInputs(handler, accept) :
           Respond("render_get", handler.path, accept, handler,
                   render_get(handler, accept, current_temp, rnd, now))

NextGet ==
    \/ \E path \in PathChoices, accept \in AcceptChoices : Get(path, accept)
    \/ \E handler \in HandlerChoices, accept \in AcceptChoices :
           CallRenderGet(handler, accept)

SpecGet == InitGet /\ [][NextGet]_vars

(***************************************************************************)
(* Calls of the path and message builders                                  *)
(***************************************************************************)
DeviceNameChoices == {"Malaria", "dev1", "urn:nai:no-sec@mikegpl.dev", ""}
LifetimeSecondsChoices == {0, 1, 60, 300, 86400}
LifetimeStringChoices == {"60", "086400"}
VersionChoices == {"1.0", "1.1", "1.2"}
BindingChoices == {"U", "UQ", "T"}

\* RegistrationParameters objects a caller may construct.
ParameterChoices ==
    [device_name : DeviceNameChoices,
     lifetime_seconds : LifetimeSecondsChoices,
     lwm2m_version : VersionChoices,
     binding : BindingChoices,
     enable_queue_binding : BOOLEAN]

ServerChoices == {server_url, "coap://eu.iot.avsystem.cloud",
                  "coap://localhost:5683"}

\* Location-Path segment lists: none, one, two and three segments.
PartsChoices ==
    {<<>>, <<"rd">>, <<"rd", "x7">>, <<"x7", "rd">>, <<"rd", "rd">>,
     <<"rd", "dev1">>, <<"rd", "urn:nai:no-sec@mikegpl.dev">>,
     <<"rd", "">>, <<"a", "b", "c">>}

InitPath ==
    /\ prog = "call_path"
    /\ pc = "call"
    /\ params = RegistrationParameters(endpoint_name)
    /\ location = <<>>
    /\ InitCommon

CallRegisterPath(p) ==
    /\ prog = "call_path"
    /\ call' = [fn |-> "register_path", p |-> p]
    /\ result' = [error |-> "none", path |-> register_path(p)]
    /\ UNCHANGED <<lifecycleVars, current_temp, payload>>

CallToRegisterPath(p) ==
    /\ prog = "call_path"
    /\ call' = [fn |-> "to_register_path", p |-> p]
    /\ result' = [error |-> "none", path |-> to_register_path(p)]
    /\ UNCHANGED <<lifecycleVars, current_temp, payload>>

CallMakeRegisterPath(device_name, lifetime_seconds, lwm2m_version, binding) ==
    /\ prog = "call_path"
    /\ call' = [fn |-> "make_register_path", device_name |-> device_name,
                lifetime_seconds |-> lifetime_seconds,
                lwm2m_version |-> lwm2m_version, binding |-> binding]
    /\ result' = [error |-> "none",
                  path |-> make_register_path(device_name, lifetime_seconds,
                                              lwm2m_version, binding)]
    /\ UNCHANGED <<lifecycleVars, current_temp, payload>>

CallMakeDeregisterPath(device_location_parts) ==
    /\ prog = "call_path"
    /\ call' = [fn |-> "make_deregister_path",
                device_location_parts |-> device_location_parts]
    /\ result' = IF make_deregister_path(device_location_parts).ok
                 THEN [error |-> "none",
                       path |-> make_deregister_path(device_location_parts).path]
                 ELSE [error |-> "AssertionError", path |-> ""]
    /\ UNCHANGED <<lifecycleVars, current_temp, payload>>

CallMakeDeregisterMessage(server_addr, device_location_parts) ==
    /\ prog = "call_path"
    /\ call' = [fn |-> "make_deregister_message", server_addr |-> server_addr,
                device_location_parts |-> device_location_parts]
    /\ result' = IF make_deregister_path(device_location_parts).ok
                 THEN [error |-> "none",
                       msg |-> make_deregister_message(server_addr,
                                                       device_location_parts)]
                 ELSE [error |-> "AssertionError"]
    /\ UNCHANGED <<lifecycleVars, current_temp, payload>>

NextPath ==
    \/ \E p \in ParameterChoices : CallRegisterPath(p)
    \/ \E p \in ParameterChoices : CallToRegisterPath(p)
    \/ \E d \in DeviceNameChoices, lt \in LifetimeSecondsChoices,
          v \in VersionChoices, b \in BindingChoices :
           CallMakeRegisterPath(d, [t |-> "int", v |-> lt], v, b)
    \/ \E d \in DeviceNameChoices, lt \in LifetimeStringChoices,
          v \in VersionChoices, b \in BindingChoices :
           CallMakeRegisterPath(d, [t |-> "str", v |-> lt], v, b)
    \/ \E parts \in PartsChoices : CallMakeDeregisterPath(parts)
    \/ \E server_addr \in ServerChoices, parts \in PartsChoices :
           CallMakeDeregisterMessage(server_addr, parts)

SpecPath == InitPath /\ [][NextPath]_vars

(***************************************************************************)
(* SenML records and the SEND payload (models.py)                          *)
(***************************************************************************)
\* Most records one SendPayload object is given.
MaxRecords == 2

\* An Optional field: None, or a value.
Absent == [none |-> TRUE]
Present(x) == [none |-> FALSE, val |-> x]

\* s repeated k times.
RECURSIVE Repeat(_, _)
Repeat(s, k) ==
    IF k = 0 THEN ""
    ELSE IF k % 2 = 0 THEN Repeat(s \o s, k \div 2)
    ELSE s \o Repeat(s \o s, k \div 2)

\* The int 10**400, as its numeral.
HugeInt == "1" \o Repeat("0", 400)

\* A Python value is [t, v]: its type and its text str(value), which for a
\* float is also its repr.  float(value) of an int or a float, as the repr
\* of the result: an int of up to 15 digits is exact, one beyond the
\* double range raises OverflowError.
number_to_float(value) ==
    IF value.t = "float" THEN [error |-> "none", repr |-> value.v]
    ELSE IF Len(value.v) > 309 THEN [error |-> "OverflowError", repr |-> ""]
    ELSE [error |-> "none", repr |-> value.v \o ".0"]

\* path.startswith("/")
startswith_slash(path) == Len(path) >= 1 /\ SubSeq(path, 1, 1) = "/"

\* SenmlRecord.from_lwm2m; `now` is what time.time() gives
from_lwm2m(path, value, timestamp, now) ==
    LET n == IF startswith_slash(path) THEN path ELSE "/" \o path
        t == IF timestamp = None THEN now ELSE timestamp
        record == [n |-> n, v |-> Absent, vs |-> Absent, vb |-> Absent,
                   t |-> Present(t)]
    IN  IF value.t = "bool"
        THEN [error |-> "none",
              record |-> [record EXCEPT !.vb = Present(value.v = "True")]]
        ELSE IF value.t \in {"int", "float"}
        THEN IF number_to_float(value).error # "none"
             THEN [error |-> number_to_float(value).error, record |-> record]
             ELSE [error |-> "none",
                   record |-> [record EXCEPT
                                 !.v = Present(number_to_float(value).repr)]]
        ELSE [error |-> "none",
              record |-> [record EXCEPT !.vs = Present(value.v)]]

\* json.dumps of a str without characters that need an escape
json_string(x) == "\"" \o x \o "\""

\* The items SenmlRecord.to_dict puts into d when every field is copied.
to_dict_WithNulls(record) ==
    <<(<<"n", json_string(record.n)>>),
      <<"t", IF record.t.none THEN "null" ELSE ToString(record.t.val)>>,
      <<"v", IF record.v.none THEN "null" ELSE record.v.val>>,
      <<"vs", IF record.vs.none THEN "null" ELSE json_string(record.vs.val)>>,
      <<"vb", IF record.vb.none THEN "null"
              ELSE IF record.vb.val THEN "true" ELSE "false">>>>

\* SenmlRecord.to_dict: the items of d in insertion order, each value as
\* json.dumps writes it.
to_dict(record) ==
    <<(<<"n", json_string(record.n)>>)>>
        \o (IF record.t.none THEN <<>>
            ELSE <<(<<"t", ToString(record.t.val)>>)>>)
        \o (IF record.v.none THEN <<>> ELSE <<(<<"v", record.v.val>>)>>)
        \o (IF record.vs.none THEN <<>>
            ELSE <<(<<"vs", json_string(record.vs.val)>>)>>)
        \o (IF record.vb.none THEN <<>>
            ELSE <<(<<"vb", IF record.vb.val THEN "true" ELSE "false">>)>>)

\* json.dumps(data, separators=(",", ":")) of a list of dicts
json_dumps(data) ==
    "[" \o Join(",", [i \in DOMAIN data |->
                        "{" \o Join(",", [j \in DOMAIN data[i] |->
                                   json_string(data[i][j][1]) \o ":"
                                       \o data[i][j][2]])
                            \o "}"])
        \o "]"

\* SendPayload.to_senml_json_bytes: the list of dicts and the document
\* whose UTF-8 bytes are returned.
to_senml_json_bytes(records) ==
    [error |-> "none",
     data |-> [i \in DOMAIN records |-> to_dict(records[i])],
     text |-> json_dumps([i \in DOMAIN records |-> to_dict(records[i])])]

\* Values of every type a caller may add.
SendValueChoices ==
    {[t |-> "bool", v |-> "True"], [t |-> "bool", v |-> "False"],
     [t |-> "int", v |-> "60"], [t |-> "int", v |-> "0"],
     [t |-> "int", v |-> HugeInt],
     [t |-> "float", v |-> "21.37"],
     [t |-> "str", v |-> "U"], [t |-> "str", v |-> ""],
     [t |-> "NoneType", v |-> "None"]}

SendPathChoices == {"/3303/0/5700", "3/0/13"}

\* None, or the timestamp the caller passes.
TimestampChoices == {None, 0}

InitSend ==
    /\ prog = "call_send"
    /\ pc = "call"
    /\ params = RegistrationParameters(endpoint_name)
    /\ location = <<>>
    /\ InitCommon

\* SendPayload(): a new object without records.
NewSendPayload ==
    /\ prog = "call_send"
    /\ call' = [fn |-> "SendPayload"]
    /\ result' = NoResult
    /\ payload' = <<>>
    /\ UNCHANGED <<lifecycleVars, current_temp>>

\* What append does with the record from_lwm2m made, or the exception.
Append_record(made) ==
    /\ result' = [error |-> made.error]
    /\ payload' = IF made.error = "none" THEN Append(payload, made.record)
                  ELSE payload

\* SendPayload.add
Add(path, value, timestamp) ==
    /\ prog = "call_send"
    /\ Len(payload) < MaxRecords
    /\ call' = [fn |-> "add", path |-> path, value |-> value,
                timestamp |-> timestamp]
    /\ \E now \in IF timestamp = None THEN TimeChoices ELSE {0} :
           Append_record(from_lwm2m(path, value, timestamp, now))
    /\ UNCHANGED <<lifecycleVars, current_temp>>

CallToSenmlJsonBytes ==
    /\ prog = "call_send"
    /\ call' = [fn |-> "to_senml_json_bytes"]
    /\ result' = to_senml_json_bytes(payload)
    /\ UNCHANGED <<lifecycleVars, current_temp, payload>>

NextSend ==
    \/ NewSendPayload
    \/ \E path \in SendPathChoices, value \in SendValueChoices,
          timestamp \in TimestampChoices : Add(path, value, timestamp)
    \/ CallToSenmlJsonBytes

SpecSend == InitSend /\ [][NextSend]_vars

(***************************************************************************)
(* The temperature cell read by the site's handlers and by send_loop       *)
(***************************************************************************)
\* Values random.uniform may return for the state cur: a first reading at
\* either end of or inside [T_MIN, T_MAX], then the largest step in either
\* direction or none.
UniformChoices(cur) ==
    IF cur = None THEN {T_MIN, T_MIN + 137, T_MAX}
    ELSE {-T_STEP, 0, T_STEP}

\* The characters of a text of digits and points, given by their codes.
RECURSIVE decode_digits(_)
decode_digits(cps) ==
    IF cps = <<>> THEN ""
    ELSE (IF Head(cps) = Ord(".") THEN "."
          ELSE SubSeq("0123456789", Head(cps) - Ord("0") + 1,
                      Head(cps) - Ord("0") + 1))
             \o decode_digits(Tail(cps))

\* repr(float(text)) of a text written by format_2f: the shortest numeral
\* that reads back as the same double, so "21.30" gives "21.3".
repr_float(cps) ==
    decode_digits(IF cps[Len(cps)] = Ord("0")
                  THEN SubSeq(cps, 1, Len(cps) - 1) ELSE cps)

\* The handlers main adds for the temperature object.
TemperatureHandlers ==
    {h \in Site : h.class \in {"TemperatureObjectResource",
                               "TemperatureInstanceResource",
                               "TemperatureValueResource"}}

InitTemp ==
    /\ prog = "call_temp"
    /\ pc = "call"
    /\ params = RegistrationParameters(endpoint_name)
    /\ location = <<>>
    /\ InitCommon

\* An inbound GET on a temperature path; the handler runs without an await,
\* so nothing else runs between its read of the cell and its return.
InboundRead(handler, accept) ==
    /\ prog = "call_temp"
    /\ \E rnd \in IF ReadsTemperature(handler, accept)
                   THEN UniformChoices(current_temp) ELSE {0} :
           Respond("GET", handler.path, accept, handler,
                   render_get(handler, accept, current_temp, rnd,
                              1700000000))

\* What send_loop has after lines 87-89: the bytes it read, the new
\* _current_temp, and the payload with the one record it added.
SendLoopOutcome(read, made) ==
    /\ result' = [error |-> made.error, bytes |-> read.bytes]
    /\ current_temp' = read.temp
    /\ payload' = IF made.error = "none" THEN <<made.record>> ELSE <<>>

\* send_loop 88-89: temp = float(read...), payload.add("/3303/0/5700", temp)
SendLoopAdd(read, now) ==
    SendLoopOutcome(read,
                    from_lwm2m("/3303/0/5700",
                               [t |-> "float", v |-> repr_float(read.bytes)],
                               None, now))

\* send_loop 87-89, up to the await of send(): a new payload, one read of
\* the temperature, one record added.
SendLoopRead(rnd, now) ==
    /\ prog = "call_temp"
    /\ call' = [fn |-> "send_loop", path |-> <<"3303", "0", "5700">>]
    /\ SendLoopAdd(read_temperature_value(current_temp, rnd), now)
    /\ UNCHANGED lifecycleVars

NextTemp ==
    \/ \E handler \in TemperatureHandlers,
          accept \in {None, APPLICATION_LINK_FORMAT} :
           InboundRead(handler, accept)
    \/ \E rnd \in UniformChoices(current_temp), now \in TimeChoices :
           SendLoopRead(rnd, now)

SpecTemp == InitTemp /\ [][NextTemp]_vars

(***************************************************************************)
(* The temperature cell as the double it is.  A double in [16, 32) is a    *)
(* whole number of units of 2^-48; the cell is kept as its distance from   *)
(* T_MIN = 20.0 in these units, in four limbs of 16 bits, lowest first.    *)
(* A step drawn from [-T_STEP, T_STEP] is a sign and a magnitude in units  *)
(* of 2^-54, in the same limbs.                                            *)
(***************************************************************************)
Limb == 65536

\* Carries moved up; the top limb keeps the sign and what exceeds 16 bits.
Carry(x) ==
    LET s2 == x[2] + (x[1] \div Limb)
        s3 == x[3] + (s2 \div Limb)
    IN  <<x[1] % Limb, s2 % Limb, s3 % Limb, x[4] + (s3 \div Limb)>>

LimbSum(x, y) == Carry([i \in 1..4 |-> x[i] + y[i]])
LimbDiff(x, y) == Carry([i \in 1..4 |-> x[i] - y[i]])
LimbLess(x, y) == LimbDiff(x, y)[4] < 0
\* k times x, for a small k
Scaled(x, k) == Carry([i \in 1..4 |-> k * x[i]])

\* _current_temp = None, for a cell kept in limbs
None_double == <<>>

\* T_MIN = 20.0 and T_MAX = 26.0 as distances from 20.0
T_MIN_double == <<0, 0, 0, 0>>
T_MAX_double == <<0, 0, 0, 6>>
\* The double 0.3 (0x3FD3333333333333) in units of 2^-54
T_STEP_double == <<13107, 13107, 13107, 19>>

\* _current_temp + delta: the exact sum rounded to the nearest double, a
\* tie going to the even one.
float_add(cur, delta) ==
    LET m    == delta.mag
        q    == <<(m[1] \div 64) + (m[2] % 64) * 1024,
                  (m[2] \div 64) + (m[3] % 64) * 1024,
                  (m[3] \div 64) + (m[4] % 64) * 1024,
                  m[4] \div 64>>
        r    == m[1] % 64
        low  == IF delta.sign > 0 THEN LimbSum(cur, q)
                ELSE IF r = 0 THEN LimbDiff(cur, q)
                ELSE LimbDiff(cur, LimbSum(q, <<1, 0, 0, 0>>))
        frac == IF delta.sign > 0 \/ r = 0 THEN r ELSE 64 - r
    IN  IF frac < 32 \/ (frac = 32 /\ low[1] % 2 = 0) THEN low
        ELSE LimbSum(low, <<1, 0, 0, 0>>)

float_min(a, b) == IF LimbLess(b, a) THEN b ELSE a
float_max(a, b) == IF LimbLess(a, b) THEN b ELSE a

\* The hundredths in f"{t:.2f}" of the double t: 100 * t rounded to the
\* nearest whole number, a tie going to the even one.
round_2f(t) ==
    LET p     == Scaled(t, 100)
        above == p[3] > 32768 \/ (p[3] = 32768 /\ (p[2] > 0 \/ p[1] > 0))
        tie   == p[3] = 32768 /\ p[2] = 0 /\ p[1] = 0
    IN  T_MIN + p[4] + (IF above \/ (tie /\ p[4] % 2 = 1) THEN 1 ELSE 0)

\* read_temperature_value with the step added after the clamp.
read_temperature_value_double_ClampBeforeStep(cur, first, delta) ==
    LET temp == IF cur = None_double THEN first
                ELSE float_max(T_MIN_double,
                               float_add(float_min(T_MAX_double, cur), delta))
    IN  [temp |-> temp, bytes |-> encode_utf8(format_2f(round_2f(temp)))]

\* read_temperature_value on doubles: `first` is what
\* random.uniform(T_MIN, T_MAX) returns, `delta` what
\* random.uniform(-T_STEP, T_STEP) returns.
read_temperature_value_double(cur, first, delta) ==
    LET temp == IF cur = None_double THEN first
                ELSE float_max(T_MIN_double,
                               float_min(T_MAX_double, float_add(cur, delta)))
    IN  [temp |-> temp, bytes |-> encode_utf8(format_2f(round_2f(temp)))]

\* Doubles random.uniform(20.0, 26.0) = 20.0 + 6.0 * random() returns:
\* 20.0, 20.055, 20.125, 23.0 and 25.995.
FirstChoices ==
    {<<0, 0, 0, 0>>, <<18350, 31457, 3604, 0>>, <<0, 0, 8192, 0>>,
     <<0, 0, 0, 3>>, <<34079, 20971, 65208, 5>>}

\* Doubles random.uniform(-0.3, 0.3) = -0.3 + 0.6 * random() returns: -0.3
\* for random() = 0, 0.0 for 0.5, and 0.2999999999999999 for the largest
\* random(), 1 - 2^-53.
DeltaChoices ==
    {[sign |-> -1, mag |-> T_STEP_double],
     [sign |-> 1, mag |-> <<0, 0, 0, 0>>],
     [sign |-> 1, mag |-> <<13105, 13107, 13107, 19>>]}

InitWalk ==
    /\ prog = "call_walk"
    /\ pc = "call"
    /\ params = RegistrationParameters(endpoint_name)
    /\ location = <<>>
    /\ InitShared
    /\ current_temp = None_double

\* What a call of read_temperature_value leaves: the cell and the bytes.
WalkOutcome(read) ==
    /\ current_temp' = read.temp
    /\ result' = [error |-> "none", bytes |-> read.bytes]

\* One call of read_temperature_value, made by a handler's render_get or
\* by send_loop; the function has no await, so calls follow one another.
CallReadTemperatureValue(caller, first, delta) ==
    /\ prog = "call_walk"
    /\ call' = [fn |-> "read_temperature_value", caller |-> caller]
    /\ WalkOutcome(read_temperature_value_double(current_temp, first, delta))
    /\ UNCHANGED <<lifecycleVars, payload>>

NextWalk ==
    \E caller \in {"render_get", "send_loop"},
       first \in FirstChoices, delta \in DeltaChoices :
        CallReadTemperatureValue(caller, first, delta)

SpecWalk == InitWalk /\ [][NextWalk]_vars

(***************************************************************************)
(* The live sensor source (temperature_model.py)                           *)
(***************************************************************************)
\* Temperatures are in tenths of a degree here; the default is 20.0.
DEFAULT_TEMPERATURE == 200

\* What requests.get may do: raise, or return a response with a status and
\* a body.  The body is not JSON, or JSON without "current_weather" or
\* without "temperature" in it, or JSON that is a list, or it holds a
\* temperature that is a number, a numeral in a string, another string, or
\* null.
RequestExceptions == {"ConnectionError", "Timeout", "SSLError"}
StatusChoices == {200, 404, 500}
BodyKinds == {"not_json", "list", "no_current_weather", "no_temperature",
              "number", "numeric_string", "text", "null"}
ReadingChoices == {5 * k : k \in -60..90}

FetchChoices ==
    {[raised |-> e, status |-> 0, kind |-> "none", temperature |-> 0] :
         e \in RequestExceptions}
    \cup {[raised |-> "none", status |-> st, kind |-> k, temperature |-> 0] :
              st \in StatusChoices,
              k \in BodyKinds \ {"number", "numeric_string"}}
    \cup {[raised |-> "none", status |-> st, kind |-> k, temperature |-> x] :
              st \in StatusChoices, k \in {"number", "numeric_string"},
              x \in ReadingChoices}

\* The try block of get_katowice_temperature 39-51: the float it returns,
\* or the exception the first failing statement raises.
fetch_temperature(fetch) ==
    LET raise(e) == [error |-> e, value |-> 0]
    IN  IF fetch.raised # "none" THEN raise(fetch.raised)
        ELSE IF fetch.status \in 400..599 THEN raise("HTTPError")
        ELSE IF fetch.kind = "not_json" THEN raise("JSONDecodeError")
        ELSE IF fetch.kind = "list" THEN raise("TypeError")
        ELSE IF fetch.kind \in {"no_current_weather", "no_temperature"}
        THEN raise("KeyError")
        ELSE IF fetch.kind = "text" THEN raise("ValueError")
        ELSE IF fetch.kind = "null" THEN raise("TypeError")
        ELSE [error |-> "none", value |-> fetch.temperature]

\* The except clause, given what the try block did.
except_Exception(attempt) ==
    IF attempt.error = "none" THEN attempt
    ELSE [error |-> "none", value |-> DEFAULT_TEMPERATURE]

\* get_katowice_temperature with `except requests.RequestException`.
get_katowice_temperature_RequestErrorsOnly(fetch) ==
    IF fetch_temperature(fetch).error
           \in RequestExceptions \cup {"HTTPError", "JSONDecodeError"}
    THEN [error |-> "none", value |-> DEFAULT_TEMPERATURE]
    ELSE fetch_temperature(fetch)

get_katowice_temperature(fetch) == except_Exception(fetch_temperature(fetch))

InitSensor ==
    /\ prog = "call_sensor"
    /\ pc = "call"
    /\ params = RegistrationParameters(endpoint_name)
    /\ location = <<>>
    /\ InitCommon

CallGetKatowiceTemperature(fetch) ==
    /\ prog = "call_sensor"
    /\ call' = [fn |-> "get_katowice_temperature", fetch |-> fetch]
    /\ result' = get_katowice_temperature(fetch)
    /\ UNCHANGED <<lifecycleVars, current_temp, payload>>

NextSensor == \E fetch \in FetchChoices : CallGetKatowiceTemperature(fetch)

SpecSensor == InitSensor /\ [][NextSensor]_vars

(***************************************************************************)
(* Properties                                                              *)
(***************************************************************************)
Sent(ops) == {i \in 1..Len(sent) : sent[i].op \in ops}

RegistrationAccepted ==
    /\ regResponse # NoResponse
    /\ IsSuccessful(regResponse.code)
    /\ regResponse.location # <<>>

\* C1: once more than RetryBudget UPDATE exchanges in a row have failed
\* (non-2.xx response or exception), the lifecycle state is Unregistered and
\* the location is discarded, so no further UPDATE goes to it.
C1_BudgetExhaustedUnregisters ==
    consecFail > RetryBudget =>
        /\ LifecycleState = "Unregistered"
        /\ location = <<>>

\* C2: the client is Registered (or Updating) only after a 2.xx REGISTER
\* response that carries a non-empty location; after any other REGISTER
\* response the state is Unregistered, and no UPDATE or SEND is ever sent.
C2_RegisteredOnlyOnAcceptedRegister ==
    /\ (LifecycleState \in {"Registered", "Updating"}) => RegistrationAccepted
    /\ (regResponse # NoResponse /\ ~RegistrationAccepted) =>
           LifecycleState = "Unregistered"
    /\ ~RegistrationAccepted => Sent({"UPDATE", "SEND"}) = {}

C2_Witness ==
    /\ prog = "main"
    /\ RegistrationAccepted
    /\ Sent({"UPDATE"}) # {}
    /\ Sent({"SEND"}) # {}
    /\ LifecycleState = "Registered"

RECURSIVE PathOf(_, _)
\* "/s1/s2/.../sn" for the first n segments
PathOf(segs, n) ==
    IF n = 0 THEN "" ELSE PathOf(segs, n - 1) \o "/" \o segs[n]

\* C3: the DEREGISTER is a DELETE to the location of the REGISTER response;
\* once it has ended (accepted, rejected, raised or cancelled) the state is
\* Unregistered and the location is discarded, and after the DELETE no
\* further request is sent.
C3_DeregisterDiscardsHandle ==
    /\ [](\A i \in Sent({"DEREGISTER"}) :
             /\ sent[i].code = "DELETE"
             /\ sent[i].uri = server_url
                    \o PathOf(regResponse.location, Len(regResponse.location)))
    /\ []((Sent({"DEREGISTER"}) # {} /\ pc # "await_dereg") =>
             (LifecycleState = "Unregistered" /\ location = <<>>))
    /\ [][Sent({"DEREGISTER"}) # {} => sent' = sent]_vars

C3_Witness ==
    /\ prog = "client"
    /\ Sent({"DEREGISTER"}) # {}
    /\ after[<<"DEREGISTER", "failure">>] = "Unregistered"
    /\ pc = "done"
    /\ location = <<>>

\* C4: at most one REGISTER/UPDATE/DEREGISTER exchange is outstanding at any
\* time, also while a SEND exchange is outstanding.
C4_OneLifecycleExchange ==
    Cardinality(InFlight(LifecycleOps)) <= 1

C4_Witness ==
    /\ InFlight({"UPDATE"}) # {}
    /\ InFlight({"SEND"}) # {}
    /\ Count("UPDATE") > 1

\* Lemma: after a REGISTER or UPDATE exchange has raised, the state is
\* Unregistered, the location is discarded, and no UPDATE is sent any more.
RaisedExchangeUnregisters ==
    /\ [](transportFailed =>
             (LifecycleState = "Unregistered" /\ location = <<>>))
    /\ [][transportFailed =>
             Sent({"UPDATE"})' = Sent({"UPDATE"})]_vars

\* C5: a REGISTER or UPDATE exchange that gets no response leads to
\* Unregistered with the location discarded.
C5_NoResponseLeadsToUnregistered ==
    (silent /\ pc \in {"await_register", "await_update"})
        ~> (LifecycleState = "Unregistered" /\ location = <<>>)

\* C6: every UPDATE is a POST with empty payload whose URI is the server
\* address, the segments of the REGISTER response's location in order, and
\* the query ?lt=..&b=.. with the lifetime and binding that the REGISTER
\* request carried.
C6_UpdateReusesLocationAndParams ==
    \A i \in Sent({"UPDATE"}) :
        /\ sent[i].code = "POST"
        /\ sent[i].payload = ""
        /\ \E lt \in LifetimeChoices, b \in {"U", "UQ", "T"} :
              /\ sent[1].op = "REGISTER"
              /\ sent[1].uri = server_url \o "/rd?ep=" \o endpoint_name
                     \o "&lt=" \o ToString(lt) \o "&lwm2m=1.2&b=" \o b \o "&Q"
              /\ sent[i].uri = server_url
                     \o PathOf(regResponse.location, Len(regResponse.location))
                     \o "?lt=" \o ToString(lt) \o "&b=" \o b

C6_Witness ==
    /\ Count("UPDATE") > 1
    /\ regResponse.location = <<"rd", "x7">>
    /\ sent[Len(sent)].op = "UPDATE"

\* C7 (as stated): in the UPDATE loop the sleep interval is exactly
\* max(10, lifetime/2), i.e. twice the interval is max(20, lifetime).
C7_IntervalIsHalfLifetime ==
    pc \in {"sleep", "await_update"} =>
        2 * interval = Max(2 * MinimumInterval, params.lifetime_seconds)

\* C7 (amended): in the UPDATE loop the sleep interval is never below 10; it
\* is 10 for a lifetime below 20 and otherwise half the lifetime rounded
\* down to whole seconds.
C7_IntervalIsFlooredHalfLifetime ==
    pc \in {"sleep", "await_update"} =>
        /\ interval >= 10
        /\ params.lifetime_seconds < 20 => interval = 10
        /\ params.lifetime_seconds >= 20 =>
              /\ 2 * interval <= params.lifetime_seconds
              /\ params.lifetime_seconds < 2 * interval + 2

C7_Witness ==
    /\ pc = "sleep"
    /\ params.lifetime_seconds = 23
    /\ interval = 11
    /\ Count("UPDATE") > 1

\* C8: a lifecycle exchange that ends by timeout leaves the client in the
\* same lifecycle state as one that ends by an explicit failure response.
C8_TimeoutLikeFailureResponse ==
    \A op \in LifecycleOps :
        (after[<<op, "failure">>] # "none" /\ after[<<op, "timeout">>] # "none")
            => after[<<op, "timeout">>] = after[<<op, "failure">>]

TargetsNoLocation(m) ==
    \/ m.uri \in {server_url, server_url \o "/"}
    \/ \E lt \in LifetimeChoices :
          m.uri = server_url \o "/?lt=" \o ToString(lt) \o "&b=" \o DefaultBinding

\* C10: an update or deregister with an empty location sends no request:
\* no UPDATE or DELETE is addressed to the empty location, and a deregister
\* that sent nothing ended in an error.
C10_NoRequestWithoutHandle ==
    /\ \A i \in Sent({"UPDATE", "DEREGISTER"}) : ~TargetsNoLocation(sent[i])
    /\ (prog = "call_dereg" /\ pc = "done" /\ sent = <<>>) =>
           error = "AssertionError"


(***************************************************************************)
(* TLV codec properties (specification SpecTlv)                            *)
(***************************************************************************)
HeaderCalled == call.fn = "_encode_tlv_header"
Succeeded == result.error = "none"

\* The element sequence of the returned bytes.
Emitted == decode_tlv(result.bytes)

\* The big-endian number in the bytes b[from..Len(b)].
RECURSIVE BigEndian(_, _)
BigEndian(b, from) ==
    IF from > Len(b) THEN 0
    ELSE b[from] * (256 ^ (Len(b) - from))
             + BigEndian(b, from + 1)

\* An element and all its descendants.
RECURSIVE Elements(_)
Elements(elems) ==
    IF elems = <<>> THEN {}
    ELSE {Head(elems)} \cup Elements(Head(elems).children)
             \cup Elements(Tail(elems))

\* C16: whatever the insertion order of a dict's resources, the instance
\* encodes to the same bytes, and the children of the emitted instance are
\* resource values in strictly ascending identifier order.
C16_CanonicalOrder ==
    (call.fn = "encode_instance_tlv" /\ Succeeded) =>
        /\ \A other \in DictChoices :
               {other[i] : i \in DOMAIN other}
                   = {call.resources[i] : i \in DOMAIN call.resources}
               => encode_instance_tlv(call.instance_id, other) = result
        /\ Emitted.error = "none"
        /\ Len(Emitted.elems) = 1
        /\ LET children == Emitted.elems[1].children
           IN  /\ Len(children) = Len(call.resources)
               /\ \A i \in DOMAIN children :
                      /\ children[i].kind = RESOURCE_VALUE
                      /\ i > 1 => children[i - 1].id < children[i].id

\* An instance whose resources were inserted in descending identifier order.
C16_Witness ==
    /\ call.fn = "encode_instance_tlv"
    /\ Succeeded
    /\ Len(call.resources) = Cardinality(ItemChoices)
    /\ \A i \in 2..Len(call.resources) :
           call.resources[i - 1][1] > call.resources[i][1]

\* C17: for a value length up to 16,777,215 the header has the narrowest
\* length field that holds it (none for 0..7, where the length is in bits
\* 2-0; 1 byte for 8..255; 2 for 256..65535; 3 for 65536..16777215) and
\* the length bytes are the value length in big-endian.
C17_MinimalLengthWidth ==
    (HeaderCalled /\ Succeeded /\ call.length <= 16777215) =>
        LET b   == result.bytes
            sel == (b[1] \div 8) % 4
        IN  /\ Len(b) = 2 + sel
            /\ sel = 0 <=> call.length \in 0..7
            /\ sel = 1 <=> call.length \in 8..255
            /\ sel = 2 <=> call.length \in 256..65535
            /\ sel = 3 <=> call.length \in 65536..16777215
            /\ sel = 0 => b[1] % 8 = call.length
            /\ sel > 0 => BigEndian(b, 3) = call.length

\* A header for the boundary length 65536.
C17_Witness ==
    /\ HeaderCalled
    /\ Succeeded
    /\ call.length = 65536
    /\ Len(result.bytes) = 5

\* C18: a value length above 16,777,215 fails with ValueTooLarge and no
\* bytes are emitted.
C18_ValueTooLarge ==
    (HeaderCalled /\ call.length > 16777215) =>
        /\ result.error = "ValueTooLarge"
        /\ result.bytes = <<>>

Decoded ==
    decode_value(Emitted.elems[1].value, call.value.t)

\* C20, as stated: every leaf value that is encoded decodes to itself.
C20_RoundTrip ==
    (call.fn = "encode_resource_tlv" /\ Succeeded) =>
        /\ Emitted.error = "none"
        /\ Len(Emitted.elems) = 1
        /\ Decoded = call.value

\* A float that single precision holds exactly.
IsSingle(x) == x.lo = 0 /\ x.exp \in -126..127

\* C20, amended: a string, an int32, opaque bytes, or a float that single
\* precision represents exactly decodes to itself.
C20_RoundTripSinglePrecision ==
    (/\ call.fn = "encode_resource_tlv"
     /\ call.resource_id \in 0..255
     /\ call.value.t = "float" => IsSingle(call.value.v)) =>
        /\ Succeeded
        /\ Emitted.error = "none"
        /\ Len(Emitted.elems) = 1
        /\ Decoded = call.value

\* The smallest int32 went through the round trip.
C20_Witness ==
    /\ call.fn = "encode_resource_tlv"
    /\ call.value.t = "int"
    /\ call.value.v = (-2147483647) - 1
    /\ Succeeded
    /\ Decoded = call.value


(***************************************************************************)
(* Content negotiation properties (specification SpecGet)                  *)
(***************************************************************************)
GetCalled == call.fn \in {"GET", "render_get"}

\* The answer is a link-format listing.
IsListing ==
    /\ result.error = "none"
    /\ result.code = CONTENT
    /\ result.content_format = APPLICATION_LINK_FORMAT

\* The answer is a well-formed TLV value with the TLV content format.
IsTlvValue ==
    /\ result.error = "none"
    /\ result.code = CONTENT
    /\ result.content_format = LWM2M_TLV
    /\ result.bytes # <<>>
    /\ decode_tlv(result.bytes).error = "none"

\* The answer is plain text.
IsPlainText ==
    /\ result.error = "none"
    /\ result.code = CONTENT
    /\ result.content_format = TEXT_PLAIN

IsNotAcceptable == result.error = "none" /\ result.code = NOT_ACCEPTABLE

\* link is a path one level below path.
IsChildOf(link, path) ==
    /\ Len(link) = Len(path) + 1
    /\ SubSeq(link, 1, Len(path)) = path

ObjectPaths == {<<"3303">>, <<"1">>, <<"3">>}
InstancePaths == {<<"3303", "0">>, <<"1", "1">>, <<"3", "0">>}

\* C11: a GET on an object or instance path is answered by the listing
\* when Accept is link-format, by a TLV value with the TLV content format
\* when Accept is absent or TLV, and by Not Acceptable otherwise.
C11_OutcomeChosenByAccept ==
    (GetCalled /\ call.path \in ObjectPaths \cup InstancePaths) =>
        /\ call.accept = APPLICATION_LINK_FORMAT => IsListing
        /\ call.accept \in {None, LWM2M_TLV} => IsTlvValue
        /\ call.accept \notin {None, LWM2M_TLV, APPLICATION_LINK_FORMAT}
               => IsNotAcceptable

\* C12: a leaf is answered in plain text only when Accept is absent (or
\* asks for plain text), and a leaf GET that asks for a format the client
\* does not produce is answered Not Acceptable.
C12_LeafNegotiation ==
    (GetCalled /\ Len(call.path) = 3 /\ call.handler # NoHandler) =>
        /\ IsPlainText => call.accept \in {None, TEXT_PLAIN}
        /\ call.accept = LWM2M_JSON => IsNotAcceptable

\* C13: discovery at an instance path that has a handler lists paths exactly
\* one level below the request path, all under that path, and at least one.
C13_InstanceDiscoveryListsChildren ==
    (/\ GetCalled
     /\ call.path \in InstancePaths
     /\ call.handler # NoHandler
     /\ call.accept = APPLICATION_LINK_FORMAT) =>
        /\ IsListing
        /\ result.links # <<>>
        /\ \A i \in DOMAIN result.links :
               IsChildOf(result.links[i], call.path)

\* The resources of /1/1 were listed.
C13_Witness ==
    /\ call.fn = "render_get"
    /\ call.path = <<"1", "1">>
    /\ call.accept = APPLICATION_LINK_FORMAT
    /\ IsListing
    /\ Len(result.links) = 3

\* C14, as stated: every listing, that of "/" included, holds immediate
\* children of the request path only.
C14_DiscoveryListsChildren ==
    (GetCalled /\ IsListing) =>
        \A i \in DOMAIN result.links : IsChildOf(result.links[i], call.path)

\* C14, amended: a listing at an object or instance path holds immediate
\* children only; the listing at "/" holds objects and object instances,
\* each instance with its object, and no resource.
C14_DiscoveryListsChildrenBelowRoot ==
    (GetCalled /\ IsListing) =>
        IF call.path = <<>>
        THEN \A i \in DOMAIN result.links :
                 LET link == result.links[i]
                 IN  /\ Len(link) \in {1, 2}
                     /\ Len(link) = 2 =>
                            \E j \in DOMAIN result.links :
                                result.links[j] = <<link[1]>>
        ELSE \A i \in DOMAIN result.links :
                 IsChildOf(result.links[i], call.path)

\* The listing of "/" was returned.
C14_Witness ==
    /\ call.fn = "GET"
    /\ call.path = <<>>
    /\ call.accept = APPLICATION_LINK_FORMAT
    /\ IsListing
    /\ Len(result.links) = 6

\* C15: every GET ends with a Message whose code is Content, Not Found or
\* Not Acceptable; no exception leaves render_get.
C15_GetEndsWithResponseCode ==
    GetCalled =>
        /\ result.error = "none"
        /\ result.code \in {CONTENT, NOT_FOUND, NOT_ACCEPTABLE}

(***************************************************************************)
(* TLV containers and integer leaves (specification SpecTlv)               *)
(***************************************************************************)
\* The children of the one element the call emitted.
Children == Emitted.elems[1].children

\* C21: an emitted object instance holds resource-value children with
\* pairwise different identifiers, and a multiple resource emitted for N
\* values holds N resource-instance children numbered 0..N-1 that carry
\* the values in the caller's order.
C21_UniqueSiblingIds ==
    /\ (call.fn = "encode_instance_tlv" /\ Succeeded) =>
           /\ Emitted.error = "none"
           /\ Len(Emitted.elems) = 1
           /\ Emitted.elems[1].kind = OBJECT_INSTANCE
           /\ \A i \in DOMAIN Children :
                  /\ Children[i].kind = RESOURCE_VALUE
                  /\ \A j \in DOMAIN Children :
                         i # j => Children[i].id # Children[j].id
    /\ (call.fn = "encode_multiple_resources_tlv" /\ Succeeded) =>
           /\ Emitted.error = "none"
           /\ Len(Emitted.elems) = 1
           /\ Emitted.elems[1].kind = MULTIPLE_RESOURCE
           /\ Len(Children) = Len(call.values)
           /\ \A i \in DOMAIN Children :
                  /\ Children[i].kind = RESOURCE_INSTANCE
                  /\ Children[i].id = i - 1
                  /\ Children[i].value = value_to_bytes(call.values[i]).bytes

\* A multiple resource emitted for three equal values.
C21_Witness ==
    /\ call.fn = "encode_multiple_resources_tlv"
    /\ Succeeded
    /\ Len(call.values) = 3
    /\ call.values[1] = call.values[2]
    /\ Len(Children) = 3
    /\ Children[3].id = 2


\* The call built a container: an object instance or a multiple resource.
ContainerCalled ==
    call.fn \in {"encode_instance_tlv", "encode_multiple_resources_tlv"}

\* The values the caller handed over, in the order their elements are
\* emitted.
ChildValues ==
    IF call.fn = "encode_instance_tlv"
    THEN [i \in DOMAIN call.resources |-> sorted(call.resources)[i][2]]
    ELSE call.values

\* How many bytes the element e takes: its header and its value.
ElementSize(e) ==
    (IF Len(e.value) <= 7 THEN 2
     ELSE IF Len(e.value) <= 255 THEN 3
     ELSE IF Len(e.value) <= 65535 THEN 4 ELSE 5) + Len(e.value)

RECURSIVE TotalSize(_)
\* The bytes a sequence of elements takes.
TotalSize(elems) ==
    IF elems = <<>> THEN 0
    ELSE ElementSize(Head(elems)) + TotalSize(Tail(elems))

\* C33: the length a container's header declares is the number of bytes of
\* its encoded children, for an object instance and for a multiple resource
\* (children of up to 16,777,215 bytes, the most a header can declare): the
\* element is as long as its header plus the declared length, and that
\* region splits at the children's own declared lengths into one element
\* per value, each carrying its value's bytes, with nothing left over.
C33_ContainerLengthExact ==
    /\ (ContainerCalled /\ Succeeded) =>
           LET b == result.bytes
               h == decode_header(b)
           IN  /\ h.ok
               /\ h.kind = IF call.fn = "encode_instance_tlv"
                           THEN OBJECT_INSTANCE ELSE MULTIPLE_RESOURCE
               /\ Len(b) = h.size + h.len
               /\ Emitted.error = "none"
               /\ Len(Emitted.elems) = 1
               /\ Len(Children) = Len(ChildValues)
               /\ h.len = TotalSize(Children)
               /\ \A i \in DOMAIN Children :
                      Children[i].value = value_to_bytes(ChildValues[i]).bytes
    /\ (/\ HeaderCalled
        /\ Succeeded
        /\ call.tlv_type \in {OBJECT_INSTANCE, MULTIPLE_RESOURCE}
        /\ call.length <= 16777215) =>
           LET b   == result.bytes
               sel == (b[1] \div 8) % 4
           IN  /\ Len(b) = 2 + sel
               /\ call.length = IF sel = 0 THEN b[1] % 8
                                 ELSE BigEndian(b, 3)

\* An object instance whose children take more bytes than a two-byte
\* length field declares, emitted with a three-byte length field.
C33_Witness ==
    /\ call.fn = "encode_instance_tlv"
    /\ Succeeded
    /\ Len(Children) = 2
    /\ decode_header(result.bytes).size = 5
    /\ decode_header(result.bytes).len = 3 + (5 + HugeLength)
    /\ Len(Children[2].value) = HugeLength


\* C22: an integer leaf with an identifier in 0..255 is emitted as a
\* six-byte element: the length 4 inline in bits 2-0 of the header byte, no
\* length field, and four value bytes that are v mod 2^32 in big-endian
\* (the upper half is (v div 2^16) mod 2^16, the lower half v mod 2^16).
C22_Int32BigEndian ==
    (/\ call.fn = "encode_resource_tlv"
     /\ call.value.t = "int"
     /\ call.resource_id \in 0..255) =>
        LET b == result.bytes
            v == call.value.v
        IN  /\ Succeeded
            /\ Len(b) = 6
            /\ (b[1] \div 8) % 4 = 0
            /\ b[1] % 8 = 4
            /\ \A i \in 3..6 : b[i] \in 0..255
            /\ b[3] * 256 + b[4] = (v \div 65536) % 65536
            /\ b[5] * 256 + b[6] = v % 65536

\* The smallest int32 was emitted as 80 00 00 00.
C22_Witness ==
    /\ call.fn = "encode_resource_tlv"
    /\ call.value.t = "int"
    /\ call.value.v = (-2147483647) - 1
    /\ Succeeded
    /\ SubSeq(result.bytes, 3, 6) = <<128, 0, 0, 0>>


(***************************************************************************)
(* Path builders (specification SpecPath)                                  *)
(***************************************************************************)
\* The decimal numeral of a natural number.
RECURSIVE Decimal(_)
Decimal(n) ==
    IF n < 10 THEN SubSeq("0123456789", n + 1, n + 1)
    ELSE Decimal(n \div 10) \o Decimal(n % 10)

\* "/rd?" and the five query parts, joined by "&".
RegisterQuery(device, lifetime, version, binding) ==
    "/rd?" \o Join("&", <<"ep=" \o device, "lt=" \o lifetime,
                          "lwm2m=" \o version, "b=" \o binding, "Q">>)

\* C23: every builder gives "/rd?ep=<device>&lt=<lifetime>&lwm2m=<version>
\* &b=<binding>&Q", whether queue binding is enabled or not, and for the
\* parameters of one RegistrationParameters object the three builders give
\* the same string.
C23_RegisterPath ==
    /\ call.fn \in {"register_path", "to_register_path"} =>
           LET q == call.p
               lt == Decimal(q.lifetime_seconds)
           IN  /\ result.path = RegisterQuery(q.device_name, lt,
                                              q.lwm2m_version, q.binding)
               /\ register_path(q) = result.path
               /\ to_register_path(q) = result.path
               /\ make_register_path(q.device_name,
                                     [t |-> "int", v |-> q.lifetime_seconds],
                                     q.lwm2m_version, q.binding) = result.path
               /\ make_register_path(q.device_name, [t |-> "str", v |-> lt],
                                     q.lwm2m_version, q.binding) = result.path
    /\ call.fn = "make_register_path" =>
           result.path =
               RegisterQuery(call.device_name,
                             IF call.lifetime_seconds.t = "str"
                             THEN call.lifetime_seconds.v
                             ELSE Decimal(call.lifetime_seconds.v),
                             call.lwm2m_version, call.binding)

\* The path of dev1 with lifetime 60, version 1.2, binding U and queue
\* binding switched off.
C23_Witness ==
    /\ call.fn = "register_path"
    /\ ~call.p.enable_queue_binding
    /\ call.p.device_name = "dev1"
    /\ call.p.lifetime_seconds = 60
    /\ result.path = "/rd?ep=dev1&lt=60&lwm2m=1.2&b=U&Q"

\* C24: for a location of two or more segments make_deregister_path
\* returns "/" and the segments joined by "/" in the order given, and
\* make_deregister_message returns a DELETE whose URI is the server address
\* followed by that path.
C24_DeregisterPath ==
    /\ (/\ call.fn = "make_deregister_path"
        /\ Len(call.device_location_parts) >= 2) =>
           /\ result.error = "none"
           /\ result.path = PathOf(call.device_location_parts,
                                   Len(call.device_location_parts))
    /\ (/\ call.fn = "make_deregister_message"
        /\ Len(call.device_location_parts) >= 2) =>
           /\ result.error = "none"
           /\ result.msg.code = "DELETE"
           /\ result.msg.uri =
                  call.server_addr
                      \o PathOf(call.device_location_parts,
                                Len(call.device_location_parts))

\* The DELETE for the location of the test, and one of three segments.
C24_Witness ==
    /\ call.fn = "make_deregister_message"
    /\ call.device_location_parts = <<"rd", "dev1">>
    /\ call.server_addr = "coap://eu.iot.avsystem.cloud"
    /\ result.msg.code = "DELETE"
    /\ result.msg.uri = "coap://eu.iot.avsystem.cloud/rd/dev1"


(***************************************************************************)
(* SEND payload (specification SpecSend)                                   *)
(***************************************************************************)
\* The value field a value of this type is stored in.
ValueField(value) ==
    IF value.t = "bool" THEN "vb"
    ELSE IF value.t \in {"int", "float"} THEN "v"
    ELSE "vs"

\* The value fields a record has populated.
Populated(record) ==
    {f \in {"v", "vs", "vb"} : ~record[f].none}

\* The JSON object of a record: n, t and its one value field.
RecordObject(record) ==
    "{\"n\":\"" \o record.n \o "\",\"t\":" \o Decimal(record.t.val) \o ","
        \o (CASE ~record.v.none  -> "\"v\":" \o record.v.val
              [] ~record.vs.none -> "\"vs\":\"" \o record.vs.val \o "\""
              [] ~record.vb.none ->
                     "\"vb\":" \o (IF record.vb.val THEN "true" ELSE "false"))
        \o "}"

\* C25: every add call that returns appends one record behind the records
\* already there; the record has the path (with a leading "/"), a
\* timestamp and exactly one value field, vb for a bool, v for an int or a
\* float, vs otherwise; and the serialized array is the records' objects
\* in that order, each with the keys n, t and its one value field.
C25_OneRecordPerAdd ==
    /\ [][(call'.fn = "add" /\ result'.error = "none") =>
             /\ payload' = Append(payload, payload'[Len(payload')])
             /\ LET record == payload'[Len(payload')]
                IN  /\ record.n \in {call'.path, "/" \o call'.path}
                    /\ SubSeq(record.n, 1, 1) = "/"
                    /\ ~record.t.none
                    /\ call'.timestamp # None =>
                           record.t.val = call'.timestamp
                    /\ Populated(record) = {ValueField(call'.value)}]_vars
    /\ [](call.fn = "to_senml_json_bytes" =>
             /\ Len(result.data) = Len(payload)
             /\ \A i \in DOMAIN payload :
                    /\ Cardinality(Populated(payload[i])) = 1
                    /\ [j \in DOMAIN result.data[i] |-> result.data[i][j][1]]
                           \in {<<"n", "t", f>> : f \in Populated(payload[i])}
             /\ result.text =
                    "[" \o Join(",", [i \in DOMAIN payload |->
                                        RecordObject(payload[i])]) \o "]")

\* Two records, a float and a bool, serialized in the order of the calls.
C25_Witness ==
    /\ call.fn = "to_senml_json_bytes"
    /\ Len(payload) = 2
    /\ result.text = "[{\"n\":\"/3303/0/5700\",\"t\":0,\"v\":21.37},"
                         \o "{\"n\":\"/3/0/13\",\"t\":0,\"vb\":false}]"


(***************************************************************************)
(* Reads of the temperature cell (specification SpecTemp)                  *)
(***************************************************************************)
\* The last call read the temperature: send_loop, or a GET whose handler
\* calls read_temperature_value.
TemperatureRead ==
    \/ call.fn = "send_loop"
    \/ call.fn = "GET" /\ ReadsTemperature(call.handler, call.accept)

\* The last call was a GET of the Sensor Value leaf /3303/0/5700.
LeafRead ==
    call.fn = "GET" /\ call.handler.class = "TemperatureValueResource"

\* The shortest numeral of h hundredths with at least one decimal.
Numeral(h) ==
    Decimal(h \div 100) \o "." \o Decimal((h % 100) \div 10)
        \o (IF h % 10 = 0 THEN "" ELSE Decimal(h % 10))

\* C26, as stated: a read of the temperature leaves the stored value as it
\* was, so a read that follows another read (by an inbound GET or by
\* send_loop) finds and returns the value the earlier one returned.
C26_ReadLeavesValue ==
    [][(TemperatureRead' /\ current_temp # None) =>
           current_temp' = current_temp]_vars

\* C27: a GET of the Sensor Value returns the two-decimal text of the
\* value the cell holds when the handler returns, a value within
\* [T_MIN, T_MAX]; the record send_loop adds carries the value of the cell
\* as send_loop's own read left it; and an inbound GET leaves the record
\* send_loop built untouched.
C27_ReadsSeeOneSnapshot ==
    /\ [](LeafRead =>
             /\ current_temp \in T_MIN..T_MAX
             /\ result.error = "none"
             /\ result.bytes = encode_utf8(format_2f(current_temp)))
    /\ [](call.fn = "send_loop" =>
             /\ current_temp \in T_MIN..T_MAX
             /\ result.bytes = encode_utf8(format_2f(current_temp))
             /\ Len(payload) = 1
             /\ payload[1].n = "/3303/0/5700"
             /\ payload[1].v = Present(Numeral(current_temp)))
    /\ [][call'.fn = "GET" => payload' = payload]_vars

\* An inbound GET of the leaf after send_loop built its record, the cell
\* having moved since.
C27_Witness ==
    /\ LeafRead
    /\ Len(payload) = 1
    /\ payload[1].v.val # Numeral(current_temp)
    /\ result.bytes = encode_utf8(format_2f(current_temp))


\* In hundredths of a degree and for every interleaving of the handlers
\* with send_loop: once read, the temperature is within [T_MIN, T_MAX], a
\* read moves it by at most T_STEP from what the read before it left, and
\* nothing but a read moves it.
ReadsMoveByOneStep ==
    /\ [](current_temp # None => current_temp \in T_MIN..T_MAX)
    /\ [][(TemperatureRead' /\ current_temp # None) =>
              /\ current_temp' - current_temp <= T_STEP
              /\ current_temp - current_temp' <= T_STEP]_vars
    /\ [][~TemperatureRead' => current_temp' = current_temp]_vars


(***************************************************************************)
(* The walk of the temperature on doubles (specification SpecWalk)         *)
(***************************************************************************)
\* How far two cells are apart, in units of 2^-48.
Gap(a, b) == IF LimbLess(a, b) THEN LimbDiff(b, a) ELSE LimbDiff(a, b)

\* A distance of g units of 2^-48 is at most the double T_STEP.
WithinStep(g) == ~LimbLess(T_STEP_double, Scaled(g, 64))

\* How far two numbers of hundredths are apart.
Apart(h, k) == IF h <= k THEN k - h ELSE h - k

\* The cell is a double within [T_MIN, T_MAX], and the last read returned
\* its two-decimal text, a text within the same range.
CellInRange ==
    /\ ~LimbLess(current_temp, T_MIN_double)
    /\ ~LimbLess(T_MAX_double, current_temp)
    /\ round_2f(current_temp) \in T_MIN..T_MAX
    /\ result.bytes = encode_utf8(format_2f(round_2f(current_temp)))

\* C31, as stated: once read, the temperature is within [T_MIN, T_MAX],
\* and a read differs from the read before it by at most T_STEP, in the
\* stored value and in the two-decimal value it returns.
C31_StepAtMostTStep ==
    /\ [](current_temp # None_double => CellInRange)
    /\ [][current_temp # None_double =>
              /\ WithinStep(Gap(current_temp', current_temp))
              /\ Apart(round_2f(current_temp'), round_2f(current_temp))
                     <= T_STEP]_vars

\* C31, amended: once read, the temperature is within [T_MIN, T_MAX]; the
\* stored value of a read differs from that of the read before it by at
\* most T_STEP plus one unit in the last place (2^-48), and the
\* two-decimal values the two reads return by at most T_STEP + 0.01.
C31_StepAtMostTStepRounded ==
    /\ [](current_temp # None_double => CellInRange)
    /\ [][current_temp # None_double =>
              /\ WithinStep(LimbDiff(Gap(current_temp', current_temp),
                                     <<1, 0, 0, 0>>))
              /\ Apart(round_2f(current_temp'), round_2f(current_temp))
                     <= T_STEP + 1]_vars

\* The cell holds the double next to 20.355, one largest step above the
\* double next to 20.055: the read before returned 20.05, this one 20.36.
C31_Witness ==
    /\ call.fn = "read_temperature_value"
    /\ current_temp = LimbSum(<<18350, 31457, 3604, 0>>,
                              <<52429, 52428, 19660, 0>>)
    /\ round_2f(<<18350, 31457, 3604, 0>>) = T_MIN + 5
    /\ result.bytes = encode_utf8("20.36")


(***************************************************************************)
(* The sensor source (specification SpecSensor)                            *)
(***************************************************************************)
\* The fetch did not deliver a temperature: the request raised, the status
\* is an error status, or the body holds no number at the expected place.
FetchFailed(fetch) ==
    \/ fetch.raised # "none"
    \/ fetch.status >= 400
    \/ fetch.kind \notin {"number", "numeric_string"}

\* C28: get_katowice_temperature never raises; when the fetch fails it
\* returns 20.0, and when it succeeds it returns the temperature fetched.
C28_SensorFailureGivesDefault ==
    call.fn = "get_katowice_temperature" =>
        /\ result.error = "none"
        /\ FetchFailed(call.fetch) => result.value = DEFAULT_TEMPERATURE
        /\ ~FetchFailed(call.fetch) => result.value = call.fetch.temperature

\* A 200 response whose JSON lacks the temperature was answered with 20.0.
C28_Witness ==
    /\ call.fn = "get_katowice_temperature"
    /\ call.fetch.status = 200
    /\ call.fetch.kind = "no_temperature"
    /\ result = [error |-> "none", value |-> DEFAULT_TEMPERATURE]


(***************************************************************************)
(* Advertised paths and the views of /3/0 (specification SpecGet)          *)
(***************************************************************************)
\* The parts of s between the occurrences of the character c, from
\* position i on, cur being the part begun.
RECURSIVE SplitFrom(_, _, _, _)
SplitFrom(s, c, i, cur) ==
    IF i > Len(s) THEN <<cur>>
    ELSE IF SubSeq(s, i, i) = c
    THEN <<cur>> \o SplitFrom(s, c, i + 1, "")
    ELSE SplitFrom(s, c, i + 1, cur \o SubSeq(s, i, i))

\* The paths a link-format text lists: "</1/1>,</3/0>" lists /1/1 and /3/0.
LinkPaths(text) ==
    LET links == SplitFrom(text, ",", 1, "")
    IN  [k \in DOMAIN links |->
            Tail(SplitFrom(SubSeq(links[k], 2, Len(links[k]) - 1), "/", 1, ""))]

\* The paths of the REGISTER payload and of the root listing.
AdvertisedPaths ==
    LET registered ==
            LinkPaths(make_register_message(
                          server_url,
                          RegistrationParameters(endpoint_name)).payload)
    IN  {registered[k] : k \in DOMAIN registered}
            \cup {RootListing[k] : k \in DOMAIN RootListing}

\* C29: a GET on a path of the REGISTER payload or of the root listing
\* finds a handler on the site and is not answered 4.04 Not Found.
C29_AdvertisedPathsServed ==
    (call.fn = "GET" /\ call.path \in AdvertisedPaths) =>
        /\ call.handler # NoHandler
        /\ ~(result.error = "none" /\ result.code = NOT_FOUND)


\* The leaf handlers main adds below /3/0.
DeviceLeafHandlers == {h \in Site : h.class = "DeviceValueResource"}

\* The children of the instance the handler returned in TLV.
InstanceChildren == decode_tlv(result.bytes).elems[1].children

ClientRegistered ==
    /\ prog = "client"
    /\ IsSuccessful(regResponse.code)
    /\ regResponse.location # <<>>

\* A DELETE to the location of the REGISTER response has been sent.
DeleteSent ==
    \E i \in DOMAIN sent :
        /\ sent[i].op = "DEREGISTER"
        /\ sent[i].code = "DELETE"
        /\ sent[i].uri = server_url \o "/" \o Join("/", regResponse.location)

\* C32, as stated: in client.py a successful REGISTER response with a
\* non-empty location leads to a DELETE sent to that location, and when
\* main() has ended without sending a DELETE the registration had failed
\* (no response, an exception or a failure code) or no location was
\* returned.
C32_DeleteEventuallySent ==
    /\ ClientRegistered ~> DeleteSent
    /\ []((prog = "client" /\ pc = "done" /\ ~DeleteSent) =>
              ~ClientRegistered)

\* The same for a location of two or more segments, which passes the
\* assert of make_deregister_path.
DeleteSentForPathOfSegments ==
    (ClientRegistered /\ Len(regResponse.location) > 1) ~> DeleteSent

====
